---------------------------- MODULE Spec2Model ----------------------------
(***************************************************************************)
(* A model of the carga_slack pipeline: the value normalizer, the row      *)
(* locator, the worksheet selection, the deduplication ledger, the         *)
(* per-site retry loop of the all-sites run and the dispatch of messages.  *)
(*                                                                         *)
(* Text is modelled as a sequence of one-character strings, so that the    *)
(* parsers and formatters of the program are computed character by         *)
(* character.  Numbers are exact decimals [m |-> mantissa, e |-> exponent] *)
(* standing for m / 10^e.                                                  *)
(***************************************************************************)
EXTENDS Integers, Sequences, FiniteSets, TLC

(***************************************************************************)
(* Bounds of the model.                                                    *)
(***************************************************************************)
MaxRows == 2

MaxMarks == 3

MaxRuns == 2

MaxSites == 2

MaxMargin == 60

MaxRecords == 2

MaxSends == 2

\* the attempts handed to exponential_backoff
MaxAttempt == 8

VARIABLES
    rows,       \* row locator: the records of the worksheet being searched
    today,        \* row locator: the day the program runs ([day, month, year])
    located,    \* row locator: the entry point that searched and what it found
    nin,        \* normalizer: the value handed to the normalizer
    nout,       \* normalizer: the function applied and its result
    file,       \* ledger: the content of the ledger file
    last_call,  \* ledger: the last DataManager call, its argument and outcome
    marks,      \* ledger: the number of DataManager calls made
    book,       \* process_all_sheets: the worksheets of the spreadsheet
    run,        \* process_all_sheets: the number of runs started
    pas_pc,     \* process_all_sheets: where the run stands
    sheet_i,    \* process_all_sheets: the position of the worksheet in hand
    pending,    \* process_all_sheets: the dates of the worksheet still to handle
    delivered,  \* notifier: successful deliveries of each group message
    last_group, \* process_all_sheets: the group handled last and its outcome
    outbox,     \* notifier: the requests posted by send_to_slack
    last_send,  \* send_to_slack: the last call and what it returned
    all_sites,  \* main: the rows of the sites table, as get_all_sites lists them
    channels,   \* main: webhook_to_sites, the sites of each channel webhook
    alert_row,  \* main: whether slack_channels has a row named 'Alert'
    ch_i,       \* main: the position of the channel in hand
    site_i,     \* main: the position of the site in hand within the channel
    main_pc,    \* main: where the all-sites run stands
    retry,      \* main: the flag of the per-site loop
    retry_count, \* main: the counter of the per-site loop
    attempts,   \* main: iterations of the per-site loop made for the site
    total_mc,   \* main: the channel's margin total
    total_investimento,  \* main: the channel's investment total
    total_receita_real,  \* main: the channel's revenue total in local currency
    total_receita_dolar, \* main: the channel's revenue total in foreign currency
    roas_lidos, \* main: the ROAS samples of the channel
    sent,       \* notifier: the messages main dispatched, in order
    last_error, \* main: the exception the per-site handler caught in the last iteration
    chosen,     \* main: the worksheet selection of the last iteration
    last_site,  \* main: how the last iteration for a site ended
    invocation, \* ledger: where each pipeline invocation stands in its mark_as_processed
    committed,  \* ledger: the records the invocations appended and saved, in order
    sheet_data, \* read_data: the values of the worksheet, row by row
    site_indices, \* read_data: the column indices configured for the site
    read_result \* read_data: the call made and what it returned

locVars == <<rows, today, located>>

normVars == <<nin, nout>>

ledgerVars == <<file, last_call, marks, invocation, committed>>

sheetVars == <<book, run, pas_pc, sheet_i, pending, delivered, last_group>>

sendVars == <<outbox, last_send>>

readVars == <<sheet_data, site_indices, read_result>>

mainVars == <<all_sites, channels, alert_row, ch_i, site_i, main_pc, retry,
              retry_count, attempts, total_mc, total_investimento,
              total_receita_real, total_receita_dolar, roas_lidos, sent,
              last_error, chosen, last_site>>

vars == <<rows, today, located, nin, nout, file, last_call, marks,
          book, run, pas_pc, sheet_i, pending, delivered, last_group,
          outbox, last_send,
          all_sites, channels, alert_row, ch_i, site_i, main_pc, retry,
          retry_count, attempts, total_mc, total_investimento,
          total_receita_real, total_receita_dolar, roas_lidos, sent,
          last_error, chosen, last_site,
          sheet_data, site_indices, read_result, invocation, committed>>

(***************************************************************************)
(* The part of the state a component leaves untouched while another one is *)
(* exercised.                                                              *)
(***************************************************************************)
LocIdle ==
    /\ rows = <<>>
    /\ today = [day |-> 1, month |-> 10, year |-> 2025]
    /\ located = [by |-> "none", idx |-> 0]

NormIdle == nin = [kind |-> "none"] /\ nout = [op |-> "none"]

LedgerIdle ==
    /\ file = [kind |-> "dict", groups |-> <<>>, entries |-> <<>>]
    /\ last_call = [op |-> "none"]
    /\ marks = 0
    /\ invocation = [i \in {} |-> 0]
    /\ committed = <<>>

SheetIdle ==
    /\ book = <<>>
    /\ run = 0
    /\ pas_pc = "idle"
    /\ sheet_i = 0
    /\ pending = <<>>
    /\ delivered = <<>>
    /\ last_group = [id |-> <<>>]

SendIdle == outbox = <<>> /\ last_send = [op |-> "none"]

ReadIdle ==
    /\ sheet_data = <<>>
    /\ site_indices = [investimento |-> 0, receita |-> 0, roas |-> 0, mc |-> 0]
    /\ read_result = [op |-> "none"]

MainIdle ==
    /\ all_sites = <<>>
    /\ channels = <<>>
    /\ alert_row = "absent"
    /\ ch_i = 0
    /\ site_i = 0
    /\ main_pc = "idle"
    /\ retry = FALSE
    /\ retry_count = 0
    /\ attempts = 0
    /\ total_mc = [m |-> 0, e |-> 0]
    /\ total_investimento = [m |-> 0, e |-> 0]
    /\ total_receita_real = [m |-> 0, e |-> 0]
    /\ total_receita_dolar = [m |-> 0, e |-> 0]
    /\ roas_lidos = <<>>
    /\ sent = <<>>
    /\ last_error = [op |-> "none"]
    /\ chosen = [op |-> "none"]
    /\ last_site = [result |-> "none"]

(***************************************************************************)
(* Python's None, distinct from every text.                                *)
(***************************************************************************)
None == <<"<None>">>

Digits == {"0", "1", "2", "3", "4", "5", "6", "7", "8", "9"}

IsDigit(c) == c \in Digits

DigitVal(c) ==
    CASE c = "0" -> 0 [] c = "1" -> 1 [] c = "2" -> 2 [] c = "3" -> 3
      [] c = "4" -> 4 [] c = "5" -> 5 [] c = "6" -> 6 [] c = "7" -> 7
      [] c = "8" -> 8 [] c = "9" -> 9

DigitChar(n) ==
    CASE n = 0 -> "0" [] n = 1 -> "1" [] n = 2 -> "2" [] n = 3 -> "3"
      [] n = 4 -> "4" [] n = 5 -> "5" [] n = 6 -> "6" [] n = 7 -> "7"
      [] n = 8 -> "8" [] n = 9 -> "9"

RECURSIVE Pow10(_)
Pow10(k) == IF k = 0 THEN 1 ELSE 10 * Pow10(k - 1)

(***************************************************************************)
(* Text operations of the Python runtime used by the program.              *)
(***************************************************************************)
\* s[i..] starts with p
StartsWithAt(s, p, i) ==
    /\ i + Len(p) - 1 <= Len(s)
    /\ \A k \in 1..Len(p) : s[i + k - 1] = p[k]

\* p in s
Contains(s, p) == \E i \in 1..(Len(s) - Len(p) + 1) : StartsWithAt(s, p, i)

\* s.startswith(p)
StartsWith(s, p) == StartsWithAt(s, p, 1)

RECURSIVE ReplaceFrom(_, _, _, _)
ReplaceFrom(s, p, r, i) ==
    IF i > Len(s) THEN <<>>
    ELSE IF StartsWithAt(s, p, i) THEN r \o ReplaceFrom(s, p, r, i + Len(p))
    ELSE <<s[i]>> \o ReplaceFrom(s, p, r, i + 1)

\* s.replace(p, r), p not empty
Replace(s, p, r) == ReplaceFrom(s, p, r, 1)

RECURSIVE LStrip(_)
LStrip(s) == IF s # <<>> /\ Head(s) = " " THEN LStrip(Tail(s)) ELSE s

RECURSIVE RStrip(_)
RStrip(s) ==
    IF s # <<>> /\ s[Len(s)] = " " THEN RStrip(SubSeq(s, 1, Len(s) - 1)) ELSE s

\* s.strip()
Strip(s) == RStrip(LStrip(s))

RECURSIVE SplitFrom(_, _, _)
SplitFrom(s, seps, cur) ==
    IF s = <<>> THEN <<cur>>
    ELSE IF Head(s) \in seps THEN <<cur>> \o SplitFrom(Tail(s), seps, <<>>)
    ELSE SplitFrom(Tail(s), seps, Append(cur, Head(s)))

\* re.split(r'[/-]', s) for seps = {"/", "-"}
ReSplit(s, seps) == SplitFrom(s, seps, <<>>)

RECURSIVE DigitsValue(_, _)
DigitsValue(s, acc) ==
    IF s = <<>> THEN acc ELSE DigitsValue(Tail(s), 10 * acc + DigitVal(Head(s)))

AllDigits(s) == \A k \in 1..Len(s) : IsDigit(s[k])

\* int(s): surrounding blanks and one sign are accepted; anything else raises
\* ValueError, modelled as ok = FALSE.
PyInt(s) ==
    LET t == Strip(s)
        signed == t # <<>> /\ Head(t) \in {"-", "+"}
        body == IF signed THEN Tail(t) ELSE t
    IN  IF body # <<>> /\ AllDigits(body)
        THEN [ok |-> TRUE,
              v |-> IF signed /\ Head(t) = "-" THEN 0 - DigitsValue(body, 0)
                    ELSE DigitsValue(body, 0)]
        ELSE [ok |-> FALSE, v |-> 0]

(***************************************************************************)
(* Exact decimals.                                                         *)
(***************************************************************************)
Dec(m, e) == [m |-> m, e |-> e]

Zero == Dec(0, 0)

RECURSIVE Norm(_)
Norm(x) ==
    IF x.e > 0 /\ x.m % 10 = 0 THEN Norm(Dec(x.m \div 10, x.e - 1)) ELSE x

Max2(a, b) == IF a >= b THEN a ELSE b

Scaled(x, e) == x.m * Pow10(e - x.e)

DecAdd(x, y) ==
    LET e == Max2(x.e, y.e) IN Norm(Dec(Scaled(x, e) + Scaled(y, e), e))

DecLess(x, y) ==
    LET e == Max2(x.e, y.e) IN Scaled(x, e) < Scaled(y, e)

DecLeq(x, y) ==
    LET e == Max2(x.e, y.e) IN Scaled(x, e) <= Scaled(y, e)

DecNeg(x) == Dec(0 - x.m, x.e)

CountOf(s, c) == Cardinality({k \in 1..Len(s) : s[k] = c})

\* float(s) on the texts the program builds (digits, '.', sign, blanks):
\* blanks around, one optional sign, digits with at most one '.', at least
\* one digit.  Anything else raises ValueError (ok = FALSE).
PyFloat(s) ==
    LET t == Strip(s)
        signed == t # <<>> /\ Head(t) \in {"-", "+"}
        body == IF signed THEN Tail(t) ELSE t
        digs == Replace(body, <<".">>, <<>>)
        dot == IF CountOf(body, ".") = 1
               THEN CHOOSE k \in 1..Len(body) : body[k] = "."
               ELSE 0
        good == /\ digs # <<>>
                /\ AllDigits(digs)
                /\ CountOf(body, ".") <= 1
        v == Dec(DigitsValue(digs, 0),
                 IF CountOf(body, ".") = 1 THEN Len(body) - dot ELSE 0)
    IN  IF good
        THEN [ok |-> TRUE,
              v |-> Norm(IF signed /\ Head(t) = "-" THEN DecNeg(v) ELSE v)]
        ELSE [ok |-> FALSE, v |-> Zero]


(***************************************************************************)
(* Value normalizer (main.py).                                             *)
(***************************************************************************)
T_DIV0 == <<"#", "D", "I", "V", "/", "0", "!">>

T_NA == <<"#", "N", "/", "A">>

T_VALUE == <<"#", "V", "A", "L", "U", "E", "!">>

T_REF == <<"#", "R", "E", "F", "!">>

T_NAME == <<"#", "N", "A", "M", "E", "?">>

ZeroText == <<"0", ",", "0", "0">>

ErrorTokens == {T_DIV0, T_NA, T_VALUE, T_REF, T_NAME}

cleanValueMut(val) ==
    IF val \in {None, <<>>, T_DIV0, T_NA, T_VALUE, T_REF} THEN ZeroText ELSE val

clean_value(val) ==
    IF val \in ({None, <<>>} \cup ErrorTokens) THEN ZeroText ELSE val

is_dollar_value(value_str) ==
    LET v == Strip(value_str)
    IN  Contains(v, <<"$">>) /\ ~Contains(v, <<"R", "$">>)

NumChars == Digits \cup {".", ","}

\* re.search(r'-?\d+[\d.,]*', s): the leftmost position where a digit, or a
\* '-' followed by a digit, stands; 0 when there is none.
NumStart(s) ==
    LET hits == {i \in 1..Len(s) :
                    \/ IsDigit(s[i])
                    \/ s[i] = "-" /\ i < Len(s) /\ IsDigit(s[i + 1])}
    IN  IF hits = {} THEN 0 ELSE CHOOSE i \in hits : \A j \in hits : i <= j

RECURSIVE NumRunEnd(_, _)
NumRunEnd(s, i) ==
    IF i <= Len(s) /\ s[i] \in NumChars THEN NumRunEnd(s, i + 1) ELSE i - 1

\* match.group(0)
NumMatch(s) ==
    LET i == NumStart(s)
        j == IF s[i] = "-" THEN NumRunEnd(s, i + 1) ELSE NumRunEnd(s, i)
    IN  SubSeq(s, i, j)

toFloatKeepDotsMut(val) ==
    IF val = None \/ val = <<>> THEN Zero
    ELSE LET t == Replace(Replace(val, <<"R", "$">>, <<>>), <<" ">>, <<>>)
         IN  IF NumStart(t) = 0 THEN Zero
             ELSE LET num == Replace(NumMatch(t), <<",">>, <<".">>)
                      f == PyFloat(num)
                  IN  IF f.ok THEN f.v ELSE Zero

\* to_float on a text (or None)
to_float(val) ==
    IF val = None \/ val = <<>> THEN Zero
    ELSE LET t == Replace(Replace(val, <<"R", "$">>, <<>>), <<" ">>, <<>>)
         IN  IF NumStart(t) = 0 THEN Zero
             ELSE LET num == Replace(Replace(NumMatch(t), <<".">>, <<>>),
                                     <<",">>, <<".">>)
                      f == PyFloat(num)
                  IN  IF f.ok THEN f.v ELSE Zero

E_CRITICAL == ":rotating_light:"

E_WARNING == ":warning:"

E_NEUTRAL == ":moneybag:"

E_POSITIVE == ":star-struck:"

E_TOP == ":money_with_wings:"

E_NONE == ""

mcTierLtMut(mc_num) ==
    IF DecLeq(mc_num, Dec(0 - 100, 0)) THEN E_CRITICAL
    ELSE IF DecLess(mc_num, Zero) THEN E_WARNING
    ELSE IF DecLeq(mc_num, Dec(100, 0)) THEN E_NEUTRAL
    ELSE IF DecLeq(mc_num, Dec(1000, 0)) THEN E_POSITIVE
    ELSE E_TOP

\* the threshold ladder of get_mc_emoji
mcTier(mc_num) ==
    IF DecLess(mc_num, Dec(0 - 100, 0)) THEN E_CRITICAL
    ELSE IF DecLess(mc_num, Zero) THEN E_WARNING
    ELSE IF DecLeq(mc_num, Dec(100, 0)) THEN E_NEUTRAL
    ELSE IF DecLeq(mc_num, Dec(1000, 0)) THEN E_POSITIVE
    ELSE E_TOP

\* get_mc_emoji on the text str(mc_value)
get_mc_emoji(mc_text) ==
    LET s0 == Strip(Replace(mc_text, <<"R", "$">>, <<>>))
        s1 == IF Contains(s0, <<",">>) /\ Contains(s0, <<".">>)
              THEN Replace(Replace(s0, <<".">>, <<>>), <<",">>, <<".">>)
              ELSE IF Contains(s0, <<",">>) THEN Replace(s0, <<",">>, <<".">>)
              ELSE s0
        is_negative == StartsWith(s1, <<"-">>)
        s2 == IF is_negative THEN Tail(s1) ELSE s1
        f == PyFloat(s2)
    IN  IF ~f.ok THEN E_NONE
        ELSE mcTier(IF is_negative THEN DecNeg(f.v) ELSE f.v)

RECURSIVE NatText(_)
NatText(n) ==
    IF n < 10 THEN <<DigitChar(n)>>
    ELSE Append(NatText(n \div 10), DigitChar(n % 10))

Abs(n) == IF n < 0 THEN 0 - n ELSE n

RECURSIVE FracText(_, _)
FracText(m, e) ==
    IF e = 0 THEN <<>> ELSE Append(FracText(m \div 10, e - 1), DigitChar(m % 10))

\* str(x) of a float x holding the decimal x exactly (below 1e16): sign,
\* integer digits, '.', the shortest fraction (at least one digit)
PyStrFloat(x) ==
    LET n == Norm(x)
        a == Abs(n.m)
        ip == a \div Pow10(n.e)
        fp == a % Pow10(n.e)
    IN  (IF n.m < 0 THEN <<"-">> ELSE <<>>)
        \o NatText(ip) \o <<".">>
        \o (IF n.e = 0 THEN <<"0">> ELSE FracText(fp, n.e))

RECURSIVE Grouped(_)
Grouped(n) ==
    IF n < 1000 THEN NatText(n)
    ELSE Grouped(n \div 1000) \o <<",">> \o FracText(n % 1000, 3)

\* f"{x:,.2f}" for x = cents / 100
Format2f(cents) ==
    (IF cents < 0 THEN <<"-">> ELSE <<>>)
    \o Grouped(Abs(cents) \div 100) \o <<".">> \o FracText(Abs(cents) % 100, 2)

\* .replace(',', 'X').replace('.', ',').replace('X', '.')
\* (each replace works on the finished result of the one before)
SwapSeparators(s) ==
    CHOOSE out \in
        {Replace(b, <<"X">>, <<".">>) :
            b \in {Replace(a, <<".">>, <<",">>) :
                      a \in {Replace(x, <<",">>, <<"X">>) : x \in {s}}}} : TRUE

\* f"R$ {x:,.2f}" with the separators swapped: the Brazilian rendering
FormatBRL(cents) == SwapSeparators(<<"R", "$", " ">> \o Format2f(cents))

(***************************************************************************)
(* Row locator (main.py): datetime.strptime for the six patterns the       *)
(* program tries, and the three variants of the reverse scan.              *)
(***************************************************************************)
Pad2(n) == IF n < 10 THEN <<"0">> \o NatText(n) ELSE NatText(n)

\* get_current_date_str: f"{now.day:02d}/{now.month:02d}"
get_current_date_str(now) == Pad2(now.day) \o <<"/">> \o Pad2(now.month)

In(s, i, set) == i <= Len(s) /\ s[i] \in set

\* the alternatives of a directive of strptime at position i of s, as the
\* last positions of the candidate matches, in the order the regular
\* expression tries them
DirectiveEnds(s, i, dir) ==
    CASE dir = "d" ->
           (IF In(s, i, {"3"}) /\ In(s, i + 1, {"0", "1"}) THEN <<i + 1>> ELSE <<>>)
        \o (IF In(s, i, {"1", "2"}) /\ In(s, i + 1, Digits) THEN <<i + 1>> ELSE <<>>)
        \o (IF In(s, i, {"0"}) /\ In(s, i + 1, Digits \ {"0"}) THEN <<i + 1>> ELSE <<>>)
        \o (IF In(s, i, Digits \ {"0"}) THEN <<i>> ELSE <<>>)
        \o (IF In(s, i, {" "}) /\ In(s, i + 1, Digits \ {"0"}) THEN <<i + 1>> ELSE <<>>)
      [] dir = "m" ->
           (IF In(s, i, {"1"}) /\ In(s, i + 1, {"0", "1", "2"}) THEN <<i + 1>> ELSE <<>>)
        \o (IF In(s, i, {"0"}) /\ In(s, i + 1, Digits \ {"0"}) THEN <<i + 1>> ELSE <<>>)
        \o (IF In(s, i, Digits \ {"0"}) THEN <<i>> ELSE <<>>)
      [] dir = "Y" ->
           IF \A k \in 0..3 : In(s, i + k, Digits) THEN <<i + 3>> ELSE <<>>
      [] dir = "y" ->
           IF \A k \in 0..1 : In(s, i + k, Digits) THEN <<i + 1>> ELSE <<>>
      [] OTHER ->
           IF In(s, i, {dir}) THEN <<i>> ELSE <<>>

NoMatch == [ok |-> FALSE, end |-> 0, d |-> <<>>, m |-> <<>>, Y |-> <<>>, y |-> <<>>]

RECURSIVE MatchFrom(_, _, _, _)
RECURSIVE TryAlts(_, _, _, _, _, _)
\* the regular expression of fmt[k..] matched at position i of s
MatchFrom(s, i, fmt, k) ==
    IF k > Len(fmt) THEN [NoMatch EXCEPT !.ok = TRUE, !.end = i - 1]
    ELSE TryAlts(s, i, fmt, k, DirectiveEnds(s, i, fmt[k]), 1)

TryAlts(s, i, fmt, k, alts, n) ==
    IF n > Len(alts) THEN NoMatch
    ELSE LET rest == MatchFrom(s, alts[n] + 1, fmt, k + 1)
         IN  IF rest.ok
             THEN IF fmt[k] \in {"d", "m", "Y", "y"}
                  THEN [rest EXCEPT ![fmt[k]] = SubSeq(s, i, alts[n])]
                  ELSE rest
             ELSE TryAlts(s, i, fmt, k, alts, n + 1)

IsLeap(year) == year % 4 = 0 /\ (year % 100 # 0 \/ year % 400 = 0)

DaysIn(month, year) ==
    IF month = 2 THEN (IF IsLeap(year) THEN 29 ELSE 28)
    ELSE IF month \in {4, 6, 9, 11} THEN 30 ELSE 31

\* datetime.strptime(s, fmt): ok = FALSE stands for ValueError (no match,
\* unconverted data, or a day the month of the parsed year does not have;
\* without a year directive the year is 1900)
strptime(s, fmt) ==
    LET r == MatchFrom(s, 1, fmt, 1)
        day == PyInt(r.d).v
        month == PyInt(r.m).v
        yy == PyInt(r.y).v
        year == IF r.Y # <<>> THEN PyInt(r.Y).v
                ELSE IF r.y # <<>> THEN (IF yy <= 68 THEN 2000 + yy ELSE 1900 + yy)
                ELSE 1900
    IN  IF r.ok /\ r.end = Len(s) /\ year >= 1 /\ day <= DaysIn(month, year)
        THEN [ok |-> TRUE, day |-> day, month |-> month]
        ELSE [ok |-> FALSE, day |-> 0, month |-> 0]

F_dm == <<"d", "/", "m">>

DateFormats ==
    << <<"d", "/", "m">>, <<"d", "/", "m", "/", "Y">>, <<"d", "/", "m", "/", "y">>,
       <<"d", "-", "m">>, <<"d", "-", "m", "-", "Y">>, <<"d", "-", "m", "-", "y">> >>

\* re.sub(r'\s+', '', s)
RemoveSpaces(s) == Replace(s, <<" ">>, <<>>)

RECURSIVE SkipS(_, _)
SkipS(s, i) == IF In(s, i, {"s"}) THEN SkipS(s, i + 1) ELSE i

RECURSIVE RemoveBackslashS(_, _)
\* re.sub(r'\\s+', '', s): the pattern is a backslash followed by letters s
RemoveBackslashS(s, i) ==
    IF i > Len(s) THEN <<>>
    ELSE IF s[i] = "\\" /\ In(s, i + 1, {"s"})
         THEN RemoveBackslashS(s, SkipS(s, i + 1))
         ELSE <<s[i]>> \o RemoveBackslashS(s, i + 1)

\* the loop over the date patterns: a pattern matches when the cell and the
\* target both parse and agree on day and month
PatternsMatch(text, current_date) ==
    \E k \in 1..Len(DateFormats) :
        LET dt_val == strptime(text, DateFormats[k])
            dt_target == strptime(current_date, F_dm)
        IN  /\ dt_val.ok
            /\ dt_target.ok
            /\ dt_val.day = dt_target.day
            /\ dt_val.month = dt_target.month

\* the fallback: split on '/' or '-', the first two parts as integers
FallbackMatch(data_val_str, current_date) ==
    LET parts == ReSplit(data_val_str, {"/", "-"})
        d == PyInt(parts[1])
        m == PyInt(parts[2])
        dt_target == strptime(current_date, F_dm)
    IN  /\ Len(parts) >= 2
        /\ d.ok
        /\ m.ok
        /\ dt_target.ok
        /\ d.v = dt_target.day
        /\ m.v = dt_target.month

\* main, lines 756-783: does the row's date cell match the target
MatchMain(data_val, current_date) ==
    /\ data_val # None
    /\ data_val # <<>>
    /\ LET data_val_str == Strip(data_val)
       IN  \/ data_val_str = current_date
           \/ PatternsMatch(RemoveSpaces(data_val_str), current_date)
           \/ FallbackMatch(data_val_str, current_date)

\* process_all_sheets, lines 459-483
MatchAllSheets(data_val, current_date) ==
    /\ data_val # None
    /\ data_val # <<>>
    /\ LET data_val_str == Strip(data_val)
       IN  \/ PatternsMatch(RemoveBackslashS(data_val_str, 1), current_date)
           \/ FallbackMatch(data_val_str, current_date)

\* process_current_date_only, line 271
MatchCurrentOnly(data_val, current_date) == data_val = current_date

RECURSIVE ScanMainForward(_, _, _)
ScanMainForward(cells, current_date, i) ==
    IF i > Len(cells) THEN 0
    ELSE IF MatchMain(cells[i], current_date) THEN i
    ELSE ScanMainForward(cells, current_date, i + 1)

LocateMainFirstMut(cells, current_date) == ScanMainForward(cells, current_date, 1)

RECURSIVE ScanMain(_, _, _)
ScanMain(cells, current_date, i) ==
    IF i = 0 THEN 0
    ELSE IF MatchMain(cells[i], current_date) THEN i
    ELSE ScanMain(cells, current_date, i - 1)

RECURSIVE ScanAllSheets(_, _, _)
ScanAllSheets(cells, current_date, i) ==
    IF i = 0 THEN 0
    ELSE IF MatchAllSheets(cells[i], current_date) THEN i
    ELSE ScanAllSheets(cells, current_date, i - 1)

RECURSIVE ScanCurrentOnly(_, _, _)
ScanCurrentOnly(cells, current_date, i) ==
    IF i = 0 THEN 0
    ELSE IF MatchCurrentOnly(cells[i], current_date) THEN i
    ELSE ScanCurrentOnly(cells, current_date, i - 1)

\* for r in reversed(records): the position of current_record among the date
\* cells of the records, 0 when no row matches (current_record is None)
LocateMain(cells, current_date) == ScanMain(cells, current_date, Len(cells))

LocateAllSheets(cells, current_date) ==
    ScanAllSheets(cells, current_date, Len(cells))

LocateCurrentOnly(cells, current_date) ==
    ScanCurrentOnly(cells, current_date, Len(cells))

(***************************************************************************)
(* The inputs of the row locator: date cells as a sheet may hold them.     *)
(***************************************************************************)
CellKinds == {"dd/mm", "d/m", "dd-mm", "dd/mm/yyyy", "dd/mm/yy", "blank"}

SheetDays ==
    {[day |-> 1, month |-> 10, year |-> 2025],
     [day |-> 2, month |-> 10, year |-> 2025],
     [day |-> 29, month |-> 2, year |-> 2024]}

RunDays ==
    {[day |-> 1, month |-> 10, year |-> 2025],
     [day |-> 29, month |-> 2, year |-> 2024]}

\* the text of a date cell written in one of the styles
DateCell(date, kind) ==
    CASE kind = "dd/mm" -> Pad2(date.day) \o <<"/">> \o Pad2(date.month)
      [] kind = "d/m" -> NatText(date.day) \o <<"/">> \o NatText(date.month)
      [] kind = "dd-mm" -> Pad2(date.day) \o <<"-">> \o Pad2(date.month)
      [] kind = "dd/mm/yyyy" ->
           Pad2(date.day) \o <<"/">> \o Pad2(date.month) \o <<"/">>
           \o NatText(date.year)
      [] kind = "dd/mm/yy" ->
           Pad2(date.day) \o <<"/">> \o Pad2(date.month) \o <<"/">>
           \o Pad2(date.year % 100)
      [] kind = "blank" -> <<>>

DateRows ==
    {[day |-> d.day, month |-> d.month, kind |-> k, Data |-> DateCell(d, k)] :
        d \in SheetDays, k \in CellKinds \ {"blank"}}
    \cup {[day |-> 0, month |-> 0, kind |-> "blank", Data |-> <<>>]}

SeqsUpTo(S, n) == UNION {[1..k -> S] : k \in 0..n}

DataCells(rs) == [i \in 1..Len(rs) |-> rs[i].Data]

LocInit ==
    /\ rows \in SeqsUpTo(DateRows, MaxRows)
    /\ today \in RunDays
    /\ located = [by |-> "none", idx |-> 0]
    /\ NormIdle /\ LedgerIdle /\ SheetIdle /\ SendIdle /\ MainIdle /\ ReadIdle

\* the all-sites run of main searches the worksheet
SearchMain ==
    /\ located.by = "none"
    /\ located' = [by |-> "main",
                   idx |-> LocateMain(DataCells(rows), get_current_date_str(today))]
    /\ UNCHANGED <<rows, today, normVars, ledgerVars, sheetVars, sendVars, mainVars, readVars>>

\* process_all_sheets searches the worksheet
SearchAllSheets ==
    /\ located.by = "none"
    /\ located' = [by |-> "process_all_sheets",
                   idx |-> LocateAllSheets(DataCells(rows),
                                           get_current_date_str(today))]
    /\ UNCHANGED <<rows, today, normVars, ledgerVars, sheetVars, sendVars, mainVars, readVars>>

\* process_current_date_only searches the worksheet
SearchCurrentOnly ==
    /\ located.by = "none"
    /\ located' = [by |-> "process_current_date_only",
                   idx |-> LocateCurrentOnly(DataCells(rows),
                                             get_current_date_str(today))]
    /\ UNCHANGED <<rows, today, normVars, ledgerVars, sheetVars, sendVars, mainVars, readVars>>

LocNext == SearchMain \/ SearchAllSheets \/ SearchCurrentOnly

SpecLocate == LocInit /\ [][LocNext]_vars

\* the match test each entry point applies to one date cell
MatchOf(by, cell, current_date) ==
    CASE by = "main" -> MatchMain(cell, current_date)
      [] by = "process_all_sheets" -> MatchAllSheets(cell, current_date)
      [] by = "process_current_date_only" -> MatchCurrentOnly(cell, current_date)

MatchingRows(by) ==
    {i \in 1..Len(rows) : MatchOf(by, rows[i].Data, get_current_date_str(today))}

\* C3: whenever an entry point has searched a worksheet in which one or more
\* rows match the target date, the row it returns is the matching row that
\* comes last in the sheet's order; with no matching row it returns none.
C3_LastMatchWins ==
    located.by # "none" =>
        /\ MatchingRows(located.by) = {} => located.idx = 0
        /\ MatchingRows(located.by) # {} =>
              /\ located.idx \in MatchingRows(located.by)
              /\ \A i \in MatchingRows(located.by) : i <= located.idx

\* C3 witness: two rows match and the later one was returned
C3_Witness ==
    /\ located.by = "main"
    /\ Cardinality(MatchingRows("main")) >= 2
    /\ located.idx = 2
    /\ rows[1].Data # rows[2].Data

\* a row denotes the target date when it was written for that day and month
Denotes(r) == r.kind # "blank" /\ r.day = today.day /\ r.month = today.month

\* C4: in every entry point, when some row's date cell denotes the day and
\* month of the target date, whatever its style, a row denoting the target
\* date is located.
C4_StructurallyDifferentLocated ==
    (located.by # "none" /\ \E i \in 1..Len(rows) : Denotes(rows[i])) =>
        (located.idx # 0 /\ Denotes(rows[located.idx]))

\* the rows whose date cell is the target date string itself
ExactRows == {i \in 1..Len(rows) : rows[i].Data = get_current_date_str(today)}

\* C30: in every row-locator variant (the all-sites run in main,
\* process_all_sheets and process_current_date_only), a row whose date cell
\* is character-for-character equal to the target date string 'DD/MM' is a
\* match, for every day and month of the calendar including 29/02.
C30_ExactCellMatches ==
    (located.by # "none" /\ ExactRows # {}) =>
        /\ located.idx # 0
        /\ \A i \in ExactRows : i <= located.idx

(***************************************************************************)
(* The normalizer applied to numeric margins: the accumulated margin of a  *)
(* site is handed to get_mc_emoji as str(site_mc).                         *)
(***************************************************************************)
\* margins in steps of 25 currency units, and the cents around each threshold
NumericMargins ==
    {Dec(25 * k, 0) : k \in (0 - MaxMargin)..MaxMargin}
    \cup {Dec(c, 2) : c \in {0 - 15050, 0 - 10001, 0 - 9999, 0 - 1, 1, 9999,
                              10001, 99999, 100001}}

\* cell texts as a worksheet hands them over: the error tokens, the empty
\* cell, the absent value, and cells that are none of these
RawCells ==
    {None, <<>>} \cup ErrorTokens
    \cup { <<"#", "E", "R", "R", "O", "R", "!">>, <<" ">>, <<"-">>,
           <<"1", "2", ",", "5", "0">>,
           <<"R", "$", " ", "1", ".", "2", "3", "4", ",", "5", "6">> }

\* amounts with two decimals, in cents
AmountCents ==
    {0 - 123456789, 0 - 150050, 0 - 100000, 0 - 10000, 0 - 99, 0 - 1, 0, 5,
     100, 1250, 99999, 100000, 123456, 100000000}

\* the ways a sheet or the program writes an amount: with or without the
\* thousands dots, behind "R$ ", "R$" or nothing, the sign after or before
\* the prefix; "brl" is the program's own formatter
RenderStyles ==
    {[by |-> "brl"]}
    \cup [by : {"sheet"}, grouped : BOOLEAN,
          prefix : {<<>>, <<"R", "$">>, <<"R", "$", " ">>},
          sign : {"inner", "outer"}]

\* the text of `cents` in the style
Render(cents, style) ==
    IF style.by = "brl" THEN FormatBRL(cents)
    ELSE LET a == Abs(cents)
             body == IF style.grouped THEN SwapSeparators(Format2f(a))
                     ELSE NatText(a \div 100) \o <<",">> \o FracText(a % 100, 2)
             minus == IF cents < 0 THEN <<"-">> ELSE <<>>
         IN  IF style.sign = "inner" THEN style.prefix \o minus \o body
             ELSE minus \o style.prefix \o body

NormInit ==
    /\ nin \in {[kind |-> "number", x |-> x] : x \in NumericMargins}
               \cup {[kind |-> "cell", text |-> t] : t \in RawCells}
               \cup {[kind |-> "amount", cents |-> c, style |-> st,
                      text |-> Render(c, st)] :
                        c \in AmountCents, st \in RenderStyles}
    /\ nout = [op |-> "none"]
    /\ LocIdle /\ LedgerIdle /\ SheetIdle /\ SendIdle /\ MainIdle /\ ReadIdle

\* main, line 821: mc_emoji = get_mc_emoji(str(site_mc))
EvalMcEmoji ==
    /\ nout.op = "none"
    /\ nin.kind = "number"
    /\ nout' = [op |-> "get_mc_emoji", r |-> get_mc_emoji(PyStrFloat(nin.x))]
    /\ UNCHANGED <<nin, locVars, ledgerVars, sheetVars, sendVars, mainVars, readVars>>

\* main, lines 794-798: mc_geral = clean_value(...); to_float(mc_geral)
EvalCleanValue ==
    /\ nout.op = "none"
    /\ nin.kind = "cell"
    /\ nout' = [op |-> "clean_value", cleaned |-> clean_value(nin.text),
                f |-> to_float(clean_value(nin.text))]
    /\ UNCHANGED <<nin, locVars, ledgerVars, sheetVars, sendVars, mainVars, readVars>>

\* to_float on the text of an amount
EvalToFloat ==
    /\ nout.op = "none"
    /\ nin.kind = "amount"
    /\ nout' = [op |-> "to_float", f |-> to_float(nin.text)]
    /\ UNCHANGED <<nin, locVars, ledgerVars, sheetVars, sendVars, mainVars, readVars>>

NormNext == EvalMcEmoji \/ EvalCleanValue \/ EvalToFloat

SpecNorm == NormInit /\ [][NormNext]_vars

\* the margin of the input in cents
CentsOf(x) == x.m * Pow10(2 - x.e)

\* C10: get_mc_emoji gives a numeric margin m the critical tier when
\* m < -100, the warning tier when -100 <= m < 0, the neutral tier when
\* 0 <= m <= 100, the positive tier when 100 < m <= 1000 and the top tier
\* when m > 1000.
C10_MarginTiers ==
    (nout.op = "get_mc_emoji" /\ nin.kind = "number") =>
        LET c == CentsOf(nin.x)
        IN  /\ (c < 0 - 10000) <=> (nout.r = E_CRITICAL)
            /\ (0 - 10000 <= c /\ c < 0) <=> (nout.r = E_WARNING)
            /\ (0 <= c /\ c <= 10000) <=> (nout.r = E_NEUTRAL)
            /\ (10000 < c /\ c <= 100000) <=> (nout.r = E_POSITIVE)
            /\ (c > 100000) <=> (nout.r = E_TOP)

\* C10 witness: the margin -150 was given the critical tier
C10_Witness ==
    /\ nout.op = "get_mc_emoji"
    /\ nin.kind = "number"
    /\ nin.x = Dec(0 - 150, 0)
    /\ nout.r = E_CRITICAL

\* C11: for each recognized error token (#DIV/0!, #N/A, #VALUE!, #REF!,
\* #NAME?), the empty string and an absent value, clean_value yields '0,00'
\* and to_float of that result is 0.0.
C11_TokensBecomeZero ==
    (/\ nout.op = "clean_value"
     /\ nin.text \in {None, <<>>,
                      <<"#", "D", "I", "V", "/", "0", "!">>,
                      <<"#", "N", "/", "A">>,
                      <<"#", "V", "A", "L", "U", "E", "!">>,
                      <<"#", "R", "E", "F", "!">>,
                      <<"#", "N", "A", "M", "E", "?">>}) =>
        /\ nout.cleaned = <<"0", ",", "0", "0">>
        /\ nout.f = Dec(0, 0)

\* C11 witness: the token #NAME? was normalized to '0,00' and then to 0.0
C11_Witness ==
    /\ nout.op = "clean_value"
    /\ nin.text = <<"#", "N", "A", "M", "E", "?">>
    /\ nout.cleaned = <<"0", ",", "0", "0">>
    /\ nout.f = Dec(0, 0)

\* C12: to_float of the locale rendering of an amount with two decimals
\* (comma as decimal separator, optional thousands dots, optional 'R$' and
\* spaces, optional leading '-') is that amount; in particular to_float
\* inverts the Brazilian formatter of the summaries.
C12_ToFloatInvertsRendering ==
    (nout.op = "to_float" /\ nin.kind = "amount") =>
        nout.f = Norm(Dec(nin.cents, 2))

\* C12 witness: "R$ -1.500,50", as the formatter writes -1500.50, was read
\* back as -1500.5
C12_Witness ==
    /\ nout.op = "to_float"
    /\ nin.kind = "amount"
    /\ nin.style.by = "brl"
    /\ nin.text = <<"R", "$", " ", "-", "1", ".", "5", "0", "0", ",", "5", "0">>
    /\ nout.f = Dec(0 - 15005, 1)

(***************************************************************************)
(* Deduplication ledger (data_manager.py).  The ledger file holds a JSON   *)
(* object mapping a title to its list of entries, or the older flat list   *)
(* of entries, or text that cannot be read, or some other JSON value, or   *)
(* nothing (the file is missing).  An entry is [id, titulo, payload];      *)
(* titulo = None stands for an entry without the key 'titulo'.             *)
(***************************************************************************)
OUTROS == <<"O", "U", "T", "R", "O", "S">>

EmptyDict == <<>>

DictFile(groups) == [kind |-> "dict", groups |-> groups, entries |-> <<>>]

ListFile(entries) == [kind |-> "list", groups |-> EmptyDict, entries |-> entries]

UnreadableFile == [kind |-> "unreadable", groups |-> EmptyDict, entries |-> <<>>]

\* the file was removed after _ensure_storage_file
MissingFile == [kind |-> "missing", groups |-> EmptyDict, entries |-> <<>>]

\* valid JSON that is a number, a string, true, false or null
ScalarFile == [kind |-> "scalar", groups |-> EmptyDict, entries |-> <<>>]

\* valid JSON that is a list holding a value that is not an object, as [1]
BadListFile == [kind |-> "badlist", groups |-> EmptyDict, entries |-> <<>>]

\* _ensure_storage_file: json.dump({}, f)
EmptyFile == DictFile(EmptyDict)

\* record.get('titulo', 'OUTROS')
TituloOf(record) == IF record.titulo = None THEN OUTROS ELSE record.titulo

\* processed_data.get(titulo, [])
DictGet(d, key) == IF key \in DOMAIN d THEN d[key] ELSE <<>>

\* d[key] = value
DictSet(d, key, value) ==
    [k \in DOMAIN d \cup {key} |-> IF k = key THEN value ELSE d[k]]

RECURSIVE GroupEntries(_, _)
\* the loop of get_processed_data over a flat list
GroupEntries(entries, grouped) ==
    IF entries = <<>> THEN grouped
    ELSE LET rec == Head(entries)
             titulo == TituloOf(rec)
         IN  GroupEntries(Tail(entries),
                          DictSet(grouped, titulo,
                                  Append(DictGet(grouped, titulo), rec)))

\* get_processed_data and its callers catch json.JSONDecodeError and
\* FileNotFoundError only.  On a list with a value that is not an object
\* rec.get raises AttributeError inside get_processed_data; a scalar is
\* returned as it is and the caller's processed_data.get (or `titulo not in
\* processed_data`) raises AttributeError (TypeError).
LedgerRaises(f) == f.kind \in {"scalar", "badlist"}

getProcessedDataNoMigrationMut(f) ==
    CASE f.kind = "dict" -> f.groups
      [] f.kind = "list" -> EmptyDict
      [] f.kind = "unreadable" -> EmptyDict
      [] f.kind = "missing" -> EmptyDict

get_processed_data(f) ==
    CASE f.kind = "dict" -> f.groups
      [] f.kind = "list" -> GroupEntries(f.entries, EmptyDict)
      [] f.kind = "unreadable" -> EmptyDict
      [] f.kind = "missing" -> EmptyDict

is_record_processed(f, record) ==
    LET registros == DictGet(get_processed_data(f), TituloOf(record))
    IN  \E k \in 1..Len(registros) : registros[k].id = record.id

\* the early return of mark_as_processed: an entry of the group has the id
AlreadyMarked(f, record) ==
    LET registros == DictGet(get_processed_data(f), TituloOf(record))
    IN  \E k \in 1..Len(registros) : registros[k].id = record.id

markReplaceGroupMut(f, record, saved) ==
    LET processed_data == get_processed_data(f)
        titulo == TituloOf(record)
    IN  IF AlreadyMarked(f, record) THEN f
        ELSE IF saved
        THEN DictFile(DictSet(processed_data, titulo, <<record>>))
        ELSE f

markAlwaysAppendMut(f, record, saved) ==
    LET processed_data == get_processed_data(f)
        titulo == TituloOf(record)
    IN  IF saved
        THEN DictFile(DictSet(processed_data, titulo,
                              Append(DictGet(processed_data, titulo), record)))
        ELSE f

\* mark_as_processed: the ledger file after the call; saved = FALSE is a
\* save_processed_data whose open() failed (logged, the file is left as it was)
mark_as_processed(f, record, saved) ==
    LET processed_data == get_processed_data(f)
        titulo == TituloOf(record)
    IN  IF AlreadyMarked(f, record) THEN f
        ELSE IF saved
        THEN DictFile(DictSet(processed_data, titulo,
                              Append(DictGet(processed_data, titulo), record)))
        ELSE f

LedgerTitles == {<<"F", "B">>, OUTROS, None}

LedgerIds == {<<"1">>, <<"2">>}

Payloads == {"a", "b"}

LedgerRecords ==
    {[id |-> i, titulo |-> t, payload |-> p] :
        i \in LedgerIds, t \in LedgerTitles, p \in Payloads}

NoCall == [op |-> "none"]

LedgerInit ==
    LedgerIdle /\ LocIdle /\ NormIdle /\ SheetIdle /\ SendIdle /\ MainIdle /\ ReadIdle

\* data_manager.mark_as_processed(record, key_field='id')
Mark ==
    /\ marks < MaxMarks
    /\ \E record \in LedgerRecords, saved \in BOOLEAN :
          IF LedgerRaises(file)
          THEN /\ file' = file
               /\ last_call' = [op |-> "mark", record |-> record,
                                before |-> file, raised |-> TRUE,
                                saved |-> FALSE, returned_early |-> FALSE]
          ELSE /\ file' = mark_as_processed(file, record, saved)
               /\ last_call' = [op |-> "mark", record |-> record,
                                before |-> file, raised |-> FALSE,
                                saved |-> saved,
                                returned_early |-> AlreadyMarked(file, record)]
    /\ marks' = marks + 1
    /\ UNCHANGED <<invocation, committed>>
    /\ UNCHANGED <<locVars, normVars, sheetVars, sendVars, mainVars, readVars>>

\* data_manager.is_record_processed(record, 'id')
Query ==
    /\ marks < MaxMarks
    /\ \E record \in LedgerRecords :
          last_call' = [op |-> "is_record_processed", record |-> record,
                        before |-> file, raised |-> LedgerRaises(file),
                        result |-> IF LedgerRaises(file) THEN FALSE
                                   ELSE is_record_processed(file, record)]
    /\ marks' = marks + 1
    /\ UNCHANGED <<file, invocation, committed>>
    /\ UNCHANGED <<locVars, normVars, sheetVars, sendVars, mainVars, readVars>>

LedgerNext == Mark \/ Query

SpecLedger == LedgerInit /\ [][LedgerNext]_vars

\* the entries of a file, whatever the title they are stored under
StoredUnder(f, titulo) ==
    IF f.kind = "dict" /\ titulo \in DOMAIN f.groups THEN f.groups[titulo]
    ELSE <<>>

HasId(f, titulo, id) ==
    \E k \in 1..Len(StoredUnder(f, titulo)) : StoredUnder(f, titulo)[k].id = id

NoDuplicateIds(f) ==
    \A t \in DOMAIN f.groups :
        \A j, k \in 1..Len(f.groups[t]) :
            f.groups[t][j].id = f.groups[t][k].id => j = k

\* C2: a mark_as_processed call whose record has the group title and the id
\* of an entry already in the ledger changes nothing (the group keeps its
\* length and the entry its payload), and, from the empty ledger, no group
\* ever holds two entries with the same id.
C2_MarkIdempotent ==
    /\ (/\ last_call.op = "mark"
        /\ HasId(last_call.before, TituloOf(last_call.record),
                 last_call.record.id))
       => file = last_call.before
    /\ NoDuplicateIds(file)

\* C2 witness: a second call with the id of a stored entry and another payload
C2_Witness ==
    /\ last_call.op = "mark"
    /\ HasId(last_call.before, TituloOf(last_call.record), last_call.record.id)
    /\ \E k \in 1..Len(StoredUnder(file, TituloOf(last_call.record))) :
          LET e == StoredUnder(file, TituloOf(last_call.record))[k]
          IN  e.id = last_call.record.id /\ e.payload # last_call.record.payload

LegacyEntry(id, titulo) == [id |-> id, titulo |-> titulo, payload |-> "a"]

\* what the ledger file can hold when the program opens it
LedgerFiles ==
    { EmptyFile, MissingFile, UnreadableFile, ScalarFile, BadListFile,
      DictFile(DictSet(EmptyDict, OUTROS, <<LegacyEntry(<<"1">>, None)>>)),
      ListFile(<<>>),
      ListFile(<<LegacyEntry(<<"1">>, <<"F", "B">>)>>),
      ListFile(<<LegacyEntry(<<"1">>, <<"F", "B">>), LegacyEntry(<<"2">>, None),
                 LegacyEntry(<<"2">>, <<"F", "B">>)>>),
      ListFile(<<LegacyEntry(<<"2">>, OUTROS), LegacyEntry(<<"1">>, None),
                 LegacyEntry(<<"1">>, <<"F", "B">>),
                 LegacyEntry(<<"2">>, OUTROS)>>) }

FilesInit ==
    /\ file \in LedgerFiles
    /\ last_call = [op |-> "none"]
    /\ marks = 0
    /\ invocation = [i \in {} |-> 0]
    /\ committed = <<>>
    /\ LocIdle /\ NormIdle /\ SheetIdle /\ SendIdle /\ MainIdle /\ ReadIdle

\* the ledger calls on whatever file the program finds
SpecLedgerFiles == FilesInit /\ [][LedgerNext]_vars

\* C15: whatever the ledger file contains (missing, not valid JSON, or valid
\* JSON that is neither a group mapping nor a list of entry objects), the
\* ledger behaves as empty and never fails: is_record_processed returns
\* false and mark_as_processed completes without raising.
C15_BadFileIsEmptyLedger ==
    (/\ last_call.op # "none"
     /\ last_call.before.kind \in {"missing", "unreadable", "scalar", "badlist"})
    => /\ ~last_call.raised
       /\ last_call.op = "is_record_processed" => ~last_call.result

\* the entries of the list that carry the title, in the order of the list
EntriesTitled(entries, titulo) ==
    LET Titled(e) == (IF e.titulo = None THEN OUTROS ELSE e.titulo) = titulo
    IN  SelectSeq(entries, Titled)

\* the grouped file that holds the entries of a flat list
GroupedEquivalent(entries) ==
    DictFile([t \in {IF entries[k].titulo = None THEN OUTROS
                     ELSE entries[k].titulo : k \in 1..Len(entries)} |->
                 EntriesTitled(entries, t)])

\* s is a prefix of t
IsPrefix(s, t) == Len(s) <= Len(t) /\ SubSeq(t, 1, Len(s)) = s

Invocations == {1, 2}

NotCalling == [pc |-> "idle"]

RaceInit ==
    /\ file = EmptyFile
    /\ last_call = [op |-> "none"]
    /\ marks = 0
    /\ invocation = [i \in Invocations |-> NotCalling]
    /\ committed = <<>>
    /\ LocIdle /\ NormIdle /\ SheetIdle /\ SendIdle /\ MainIdle /\ ReadIdle

\* mark_as_processed, line 68: processed_data = self.get_processed_data()
LoadLedger(i) ==
    /\ marks < MaxMarks
    /\ invocation[i].pc = "idle"
    /\ \E record \in LedgerRecords :
          invocation' = [invocation EXCEPT ![i] =
                            [pc |-> "loaded", record |-> record,
                             processed_data |-> get_processed_data(file)]]
    /\ marks' = marks + 1
    /\ UNCHANGED <<file, last_call, committed>>
    /\ UNCHANGED <<locVars, normVars, sheetVars, sendVars, mainVars, readVars>>

\* mark_as_processed, lines 69-76, on the copy in memory: return when the
\* group holds the id, else append and save_processed_data(processed_data)
SaveLedger(i) ==
    /\ invocation[i].pc = "loaded"
    /\ LET record == invocation[i].record
           titulo == TituloOf(record)
           processed_data == invocation[i].processed_data
           registros == DictGet(processed_data, titulo)
       IN  IF \E k \in 1..Len(registros) : registros[k].id = record.id
           THEN UNCHANGED <<file, committed>>
           ELSE /\ file' = DictFile(DictSet(processed_data, titulo,
                                            Append(registros, record)))
                /\ committed' = Append(committed, record)
    /\ invocation' = [invocation EXCEPT ![i] = NotCalling]
    /\ UNCHANGED <<last_call, marks>>
    /\ UNCHANGED <<locVars, normVars, sheetVars, sendVars, mainVars, readVars>>

RaceNext == \E i \in Invocations : LoadLedger(i) \/ SaveLedger(i)

SpecLedgerRace == RaceInit /\ [][RaceNext]_vars

\* C23: if two pipeline invocations that share the ledger file interleave
\* their mark_as_processed calls, each of which reads the whole file,
\* modifies it in memory and writes the whole file back, then no entry
\* written by either is lost and no group ends with two entries of the same
\* id.
C23_NoLostEntry ==
    /\ \A k \in DOMAIN committed :
          HasId(file, TituloOf(committed[k]), committed[k].id)
    /\ NoDuplicateIds(file)


(***************************************************************************)
(* read_data (google_sheets_processor.py).  The worksheet is the list of   *)
(* rows ws.get_all_values() returns, each row a list of cell texts; the    *)
(* column indices count from 0 as in the site's configuration.             *)
(***************************************************************************)
D0110 == <<"0", "1", "/", "1", "0">>

D0210 == <<"0", "2", "/", "1", "0">>

L_Data == <<"D", "a", "t", "a">>

L_ROAS == <<"R", "O", "A", "S">>

L_MC == <<"M", "C">>

\* the positions (from 1) of the rows with a cell equal to 'Data'
RowsWithData(data) ==
    {i \in DOMAIN data :
        data[i] # <<>> /\ \E c \in DOMAIN data[i] : data[i][c] = L_Data}

\* header_row_index, counted from 1: the first row with a cell 'Data', else
\* the first row
header_row_index(data) ==
    IF RowsWithData(data) = {} THEN 1
    ELSE CHOOSE i \in RowsWithData(data) : \A j \in RowsWithData(data) : i <= j

columnIndexConfiguredMut(headers, label, fallback) == fallback

\* try: headers.index(label) / except ValueError: the configured index
column_index(headers, label, fallback) ==
    LET at == {c \in DOMAIN headers : headers[c] = label}
    IN  IF at = {} THEN fallback
        ELSE (CHOOSE c \in at : \A d \in at : c <= d) - 1

\* any(cell.strip() for cell in row)
NonBlank(row) == \E c \in DOMAIN row : Strip(row[c]) # <<>>

Max4(a, b, c, d) == Max2(Max2(a, b), Max2(c, d))

\* row[idx] if len(row) > idx else ''
CellOr(row, idx) == IF Len(row) > idx THEN row[idx + 1] ELSE <<>>

RECURSIVE RecordsOf(_, _, _, _)
\* the loop that builds the records: a row is taken only when it is longer
\* than the largest of the four indices
RecordsOf(rows_, indices, roas_idx, mc_idx) ==
    IF rows_ = <<>> THEN <<>>
    ELSE LET row == Head(rows_)
         IN  (IF Len(row) > Max4(indices.investimento, indices.receita,
                                 roas_idx, mc_idx)
              THEN << [Data |-> row[1],
                       Investimento |-> CellOr(row, indices.investimento),
                       Receita |-> CellOr(row, indices.receita),
                       ROAS |-> CellOr(row, roas_idx),
                       MC |-> CellOr(row, mc_idx)] >>
              ELSE <<>>)
             \o RecordsOf(Tail(rows_), indices, roas_idx, mc_idx)

\* read_data on a worksheet that was found: what it returns, with the header
\* row and the two indices it settled on
read_data(data, indices) ==
    IF data = <<>>
    THEN [op |-> "read_data", records |-> <<>>, header |-> 0,
          roas_idx |-> indices.roas, mc_idx |-> indices.mc]
    ELSE LET h == header_row_index(data)
             headers == data[h]
             roas_idx == column_index(headers, L_ROAS, indices.roas)
             mc_idx == column_index(headers, L_MC, indices.mc)
             rows_ == SelectSeq(SubSeq(data, h + 1, Len(data)), NonBlank)
         IN  [op |-> "read_data",
              records |-> RecordsOf(rows_, indices, roas_idx, mc_idx),
              header |-> h, roas_idx |-> roas_idx, mc_idx |-> mc_idx]

\* header rows: both labels; no label; no 'Data' and the labels elsewhere;
\* 'Data' not in the first cell and the label twice
HeaderRows ==
    { <<L_Data, <<"I", "n", "v">>, L_ROAS, L_MC>>,
      <<L_Data, <<"I", "n", "v">>, <<"R", "e", "c">>, <<"R", "o", "a", "s">>>>,
      <<<<"D", "i", "a">>, L_MC, L_ROAS, <<"R", "e", "c">>>>,
      <<<<"M", "e", "s">>, L_Data, L_ROAS, L_ROAS>> }

TitleRow == <<<<"R", "e", "s", "u", "m", "o">>, <<>>, <<>>, <<>>>>

\* rows under the header: two days and a row of blank cells
BodyRows ==
    { <<D0110, <<"a">>, <<"b">>, <<"c">>>>,
      <<D0210, <<"d">>, <<>>, <<"f">>>>,
      <<<<>>, <<" ">>, <<>>, <<>>>> }

\* the column_indices row of the site: within the sheet; ROAS and MC beyond
\* the sheet's last column; the default configuration
IndexRows ==
    { [investimento |-> 1, receita |-> 2, roas |-> 1, mc |-> 2],
      [investimento |-> 1, receita |-> 2, roas |-> 4, mc |-> 5],
      [investimento |-> 7, receita |-> 8, roas |-> 12, mc |-> 16] }

Sheets ==
    {<<>>}
    \cup {top \o <<h>> \o body :
            top \in {<<>>, <<TitleRow>>}, h \in HeaderRows,
            body \in SeqsUpTo(BodyRows, MaxRows)}

ReadInit ==
    /\ sheet_data \in Sheets
    /\ site_indices \in IndexRows
    /\ read_result = [op |-> "none"]
    /\ LocIdle /\ NormIdle /\ LedgerIdle /\ SheetIdle /\ SendIdle /\ MainIdle

\* sheets_processor.read_data(sheet_id) for the worksheet
ReadData ==
    /\ read_result.op = "none"
    /\ read_result' = read_data(sheet_data, site_indices)
    /\ UNCHANGED <<sheet_data, site_indices>>
    /\ UNCHANGED <<locVars, normVars, ledgerVars, sheetVars, sendVars, mainVars>>

ReadNext == ReadData

SpecRead == ReadInit /\ [][ReadNext]_vars

\* the non-blank rows below the header row the call settled on
RowsBelowHeader ==
    SelectSeq(SubSeq(sheet_data, read_result.header + 1, Len(sheet_data)),
              NonBlank)

\* the cell at a 0-based position of a row, the empty value beyond its end
CellAt(row, idx) == IF idx + 1 \in DOMAIN row THEN row[idx + 1] ELSE <<>>

\* C18: read_data produces one record for every non-blank row after the
\* header row, with an empty (absent) value for each field whose column
\* index lies beyond that row's length; a row shorter than a configured or
\* header-derived column index is neither dropped nor a failure.
C18_OneRecordPerRow ==
    (read_result.op = "read_data" /\ sheet_data # <<>>) =>
        /\ Len(read_result.records) = Len(RowsBelowHeader)
        /\ \A k \in DOMAIN read_result.records :
              LET row == RowsBelowHeader[k]
                  rec == read_result.records[k]
              IN  /\ rec.Data = CellAt(row, 0)
                  /\ rec.Investimento = CellAt(row, site_indices.investimento)
                  /\ rec.Receita = CellAt(row, site_indices.receita)
                  /\ rec.ROAS = CellAt(row, read_result.roas_idx)
                  /\ rec.MC = CellAt(row, read_result.mc_idx)

\* the rows of which the call made a record
RowsTaken ==
    LET Long(row) ==
            Len(row) > Max4(site_indices.investimento, site_indices.receita,
                            read_result.roas_idx, read_result.mc_idx)
    IN  SelectSeq(RowsBelowHeader, Long)

\* the 0-based positions of the header cells equal to the label
LabelAt(label) ==
    {c - 1 : c \in {d \in DOMAIN sheet_data[read_result.header] :
                       sheet_data[read_result.header][d] = label}}

\* C19: read_data reads ROAS (respectively margin) from the position of the
\* header cell that is exactly 'ROAS' (respectively 'MC') whenever the header
\* row contains one, and from the site's configured index otherwise;
\* investment and revenue are always read from the configured indices, and
\* the header row is the first row containing a cell equal to 'Data', else
\* the first row.
C19_HeaderOverrides ==
    (read_result.op = "read_data" /\ sheet_data # <<>>) =>
        /\ IF \E i \in DOMAIN sheet_data :
                 \E c \in DOMAIN sheet_data[i] : sheet_data[i][c] = L_Data
           THEN /\ \E c \in DOMAIN sheet_data[read_result.header] :
                      sheet_data[read_result.header][c] = L_Data
                /\ \A i \in 1..(read_result.header - 1) :
                      \A c \in DOMAIN sheet_data[i] : sheet_data[i][c] # L_Data
           ELSE read_result.header = 1
        /\ IF LabelAt(L_ROAS) # {}
           THEN /\ read_result.roas_idx \in LabelAt(L_ROAS)
                /\ \A c \in LabelAt(L_ROAS) : read_result.roas_idx <= c
           ELSE read_result.roas_idx = site_indices.roas
        /\ IF LabelAt(L_MC) # {}
           THEN /\ read_result.mc_idx \in LabelAt(L_MC)
                /\ \A c \in LabelAt(L_MC) : read_result.mc_idx <= c
           ELSE read_result.mc_idx = site_indices.mc
        /\ Len(read_result.records) = Len(RowsTaken)
        /\ \A k \in DOMAIN read_result.records :
              /\ read_result.records[k].ROAS =
                    RowsTaken[k][read_result.roas_idx + 1]
              /\ read_result.records[k].MC =
                    RowsTaken[k][read_result.mc_idx + 1]
              /\ read_result.records[k].Investimento =
                    RowsTaken[k][site_indices.investimento + 1]
              /\ read_result.records[k].Receita =
                    RowsTaken[k][site_indices.receita + 1]

\* C19 witness: under a title row, the header holds 'ROAS' and 'MC' in the
\* columns 2 and 3 while the site is configured for 1 and 2; the record of
\* the row 01/10 carries the cells of the columns 2 and 3
C19_Witness ==
    /\ read_result.op = "read_data"
    /\ read_result.header = 2
    /\ site_indices.roas = 1 /\ site_indices.mc = 2
    /\ read_result.roas_idx = 2 /\ read_result.mc_idx = 3
    /\ Len(read_result.records) >= 1
    /\ read_result.records[1].Data = D0110
    /\ read_result.records[1].Investimento = <<"a">>
    /\ read_result.records[1].ROAS = <<"b">>
    /\ read_result.records[1].MC = <<"c">>

\* C19 second witness: a header without the labels leaves the configured
\* indices in force
C19_FallbackWitness ==
    /\ read_result.op = "read_data"
    /\ sheet_data # <<>>
    /\ LabelAt(L_ROAS) = {} /\ LabelAt(L_MC) = {}
    /\ read_result.roas_idx = 1 /\ read_result.mc_idx = 2
    /\ Len(read_result.records) >= 1
    /\ read_result.records[1].ROAS = <<"a">>
    /\ read_result.records[1].MC = <<"b">>


(***************************************************************************)
(* process_all_sheets (main.py).  A worksheet is [name, records]; a record *)
(* is what read_data returns for a row, reduced to the cells this          *)
(* function reads: Data, 'ROAS Geral' and 'MC Geral'.                      *)
(***************************************************************************)
Outubro2025 == <<"O", "u", "t", "u", "b", "r", "o", " ", "2", "0", "2", "5">>

Setembro2025 == <<"S", "e", "t", "e", "m", "b", "r", "o", " ", "2", "0", "2", "5">>

ZeroReais == <<"R", "$", " ", "0", ",", "0", "0">>

\* GoogleSheetsProcessor.clean_value
gsp_clean_value(val) ==
    IF val \in {None, <<>>, T_DIV0, T_NA, T_VALUE, T_REF, T_NAME}
    THEN ZeroText ELSE val

\* GoogleSheetsProcessor.extract_titles_and_fields on a record of read_data:
\* the record has neither 'FB ROAS' nor 'GADS ROAS', which leaves the
\* 'Tech Pra Todos' block
gsp_extract_titles_and_fields(record) ==
    IF record.roas \notin {None, <<>>, ZeroReais}
    THEN << [titulo |-> "Tech Pra Todos",
             mc |-> gsp_clean_value(record.mc),
             roas |-> gsp_clean_value(record.roas),
             data |-> record.data] >>
    ELSE <<>>

RECURSIVE GroupByDate(_, _, _)
\* the loop that fills registros_por_data
GroupByDate(records, pagina, registros_por_data) ==
    IF records = <<>> THEN registros_por_data
    ELSE LET record == Head(records)
             blocos == gsp_extract_titles_and_fields(record)
             copies == [k \in 1..Len(blocos) |->
                          [titulo |-> blocos[k].titulo, mc |-> blocos[k].mc,
                           roas |-> blocos[k].roas, data |-> blocos[k].data,
                           pagina |-> pagina]]
         IN  IF record.data = <<>> \/ record.data = None \/ blocos = <<>>
             THEN GroupByDate(Tail(records), pagina, registros_por_data)
             ELSE GroupByDate(Tail(records), pagina,
                     DictSet(registros_por_data, record.data,
                             DictGet(registros_por_data, record.data) \o copies))

\* code point order of the characters a date cell is made of
CharOrd(c) ==
    CASE c = " " -> 32 [] c = "-" -> 45 [] c = "." -> 46 [] c = "/" -> 47
      [] IsDigit(c) -> 48 + DigitVal(c)
      [] OTHER -> 127

RECURSIVE StrLess(_, _)
\* Python's < on two texts
StrLess(a, b) ==
    IF a = <<>> THEN b # <<>>
    ELSE IF b = <<>> THEN FALSE
    ELSE IF Head(a) = Head(b) THEN StrLess(Tail(a), Tail(b))
    ELSE CharOrd(Head(a)) < CharOrd(Head(b))

RECURSIVE sorted(_)
\* sorted(registros_por_data.keys())
sorted(keys) ==
    IF keys = {} THEN <<>>
    ELSE LET least == CHOOSE k \in keys : \A o \in keys \ {k} : StrLess(k, o)
         IN  <<least>> \o sorted(keys \ {least})

\* format_slack_message_empresa: one message for each block
format_slack_message_empresa(empresa, data, blocos) ==
    [k \in 1..Len(blocos) |->
        [titulo_empresa |-> blocos[k].titulo,
         roas |-> IF blocos[k].roas = <<>> THEN <<"*", "*">> ELSE blocos[k].roas,
         mc |-> IF blocos[k].mc = <<>> THEN <<"*", "*">> ELSE blocos[k].mc]]

\* f"{empresa}_{data}"
RegistroId(empresa, data) == empresa \o <<"_">> \o data

SheetRecord(data, roas, mc) == [data |-> data, roas |-> roas, mc |-> mc]

SheetRecordKinds ==
    { SheetRecord(D0110, <<"1", ",", "5", "0">>, <<"1", "0", ",", "0", "0">>),
      SheetRecord(D0210, <<"2", ",", "0", "0">>, T_DIV0),
      SheetRecord(D0110, <<>>, <<>>),
      SheetRecord(<<>>, <<"1", ",", "5", "0">>, <<>>) }

Worksheet(name, records) == [name |-> name, records |-> records]

RECURSIVE RecordSeqs(_)
RecordSeqs(n) ==
    IF n = 0 THEN {<<>>}
    ELSE RecordSeqs(n - 1) \cup
         {Append(q, r) : q \in {x \in RecordSeqs(n - 1) : Len(x) = n - 1},
                         r \in SheetRecordKinds}

Books ==
    {<<Worksheet(Outubro2025, recs)>> : recs \in RecordSeqs(MaxRecords)} \cup
    {<<Worksheet(Setembro2025, <<SheetRecord(D0110, <<"1", ",", "5", "0">>, <<>>)>>),
       Worksheet(Outubro2025, <<SheetRecord(D0210, <<"2", ",", "0", "0">>, <<>>)>>)>>}

NoGroup == [id |-> <<>>]

SheetInit ==
    /\ book \in Books
    /\ run = 0
    /\ pas_pc = "idle"
    /\ sheet_i = 0
    /\ pending = <<>>
    /\ delivered = <<>>
    /\ last_group = NoGroup
    /\ LocIdle /\ NormIdle /\ LedgerIdle /\ SendIdle /\ MainIdle /\ ReadIdle

\* process_all_sheets up to the loop over the worksheets: the constructor of
\* GoogleSheetsProcessor may raise, get_sheet_ids may come back empty
StartRun ==
    /\ pas_pc = "idle"
    /\ run < MaxRuns
    /\ run' = run + 1
    /\ \E outcome \in {"ok", "no_sheets", "raises"} :
          IF outcome = "ok"
          THEN pas_pc' = "sheets" /\ sheet_i' = 1
          ELSE pas_pc' = "idle" /\ sheet_i' = 0
    /\ pending' = <<>>
    /\ last_group' = NoGroup
    /\ UNCHANGED <<book, delivered, locVars, normVars, ledgerVars, sendVars, mainVars, readVars>>

\* one iteration of `for sheet in sheets` up to the loop over the dates
ReadSheet ==
    /\ pas_pc = "sheets"
    /\ sheet_i <= Len(book)
    /\ \E read_ok \in BOOLEAN, config \in {"ok", "no_sheet_url", "no_webhook"} :
          LET records == IF read_ok THEN book[sheet_i].records ELSE <<>>
              pagina == book[sheet_i].name
              registros_por_data == GroupByDate(records, pagina, EmptyDict)
          IN  IF records = <<>> \/ config # "ok"
              THEN /\ sheet_i' = sheet_i + 1
                   /\ UNCHANGED <<pas_pc, pending>>
              ELSE /\ pending' = sorted(DOMAIN registros_por_data)
                   /\ pas_pc' = "groups"
                   /\ UNCHANGED sheet_i
    /\ UNCHANGED <<book, run, delivered, last_group>>
    /\ UNCHANGED <<locVars, normVars, ledgerVars, sendVars, mainVars, readVars>>

\* the count of successful deliveries after the dispatches of one group
Deliver(counts, pagina, data, ok) ==
    LET ids == {<<pagina, data, k>> : k \in DOMAIN ok}
    IN  [id \in DOMAIN counts \cup {i \in ids : ok[i[3]]} |->
            (IF id \in DOMAIN counts THEN counts[id] ELSE 0)
            + (IF id \in ids /\ ok[id[3]] THEN 1 ELSE 0)]

\* one iteration of `for data in sorted(registros_por_data.keys())`:
\* ok[k] is the result of send_to_slack for the k-th message; resumo is the
\* course of the summary block ("no_sheets": its get_sheet_ids came back
\* empty and the iteration is left by `continue`)
ProcessGroup ==
    /\ pas_pc = "groups"
    /\ pending # <<>>
    /\ LET data == Head(pending)
           empresa == book[sheet_i].name
           blocos == GroupByDate(book[sheet_i].records, empresa, EmptyDict)[data]
           registro_id == RegistroId(empresa, data)
           mensagens == format_slack_message_empresa(empresa, data, blocos)
           entry == [id |-> registro_id, titulo |-> empresa, payload |-> data]
       IN  IF is_record_processed(file, [id |-> registro_id, titulo |-> empresa])
           THEN /\ last_group' = [id |-> registro_id, skipped |-> TRUE]
                /\ UNCHANGED <<delivered, file>>
           ELSE \E ok \in [DOMAIN mensagens -> BOOLEAN],
                   resumo \in {"sent", "raises", "no_sheets"},
                   saved \in BOOLEAN :
                   LET sucesso == \A k \in DOMAIN ok : ok[k]
                       marks_it == sucesso /\ resumo # "no_sheets"
                   IN  /\ delivered' = Deliver(delivered, empresa, data, ok)
                       /\ file' = IF marks_it
                                  THEN mark_as_processed(file, entry, saved)
                                  ELSE file
                       /\ last_group' = [id |-> registro_id, skipped |-> FALSE,
                                         sucesso |-> sucesso, resumo |-> resumo,
                                         marked |-> marks_it /\ saved]
    /\ pending' = Tail(pending)
    /\ UNCHANGED <<book, run, pas_pc, sheet_i, last_call, marks, invocation,
                   committed>>
    /\ UNCHANGED <<locVars, normVars, sendVars, mainVars, readVars>>

\* the dates of a worksheet are exhausted: next worksheet
NextSheet ==
    /\ pas_pc = "groups"
    /\ pending = <<>>
    /\ pas_pc' = "sheets"
    /\ sheet_i' = sheet_i + 1
    /\ UNCHANGED <<book, run, pending, delivered, last_group>>
    /\ UNCHANGED <<locVars, normVars, ledgerVars, sendVars, mainVars, readVars>>

\* the worksheets are exhausted: return stats
EndRun ==
    /\ pas_pc = "sheets"
    /\ sheet_i > Len(book)
    /\ pas_pc' = "idle"
    /\ sheet_i' = 0
    /\ UNCHANGED <<book, run, pending, delivered, last_group>>
    /\ UNCHANGED <<locVars, normVars, ledgerVars, sendVars, mainVars, readVars>>

SheetNext == StartRun \/ ReadSheet \/ ProcessGroup \/ NextSheet \/ EndRun

SpecSheets == SheetInit /\ [][SheetNext]_vars

\* C1: across consecutive runs of process_all_sheets over the same sheet
\* contents, no message of a delivery group (worksheet title, date) is
\* delivered successfully more than once, whatever dispatches or reads fail.
C1_AtMostOnce == \A id \in DOMAIN delivered : delivered[id] <= 1

\* the ledger holds an entry with the id of the group
GroupRecorded(id) == \E t \in DOMAIN file.groups : HasId(file, t, id)

\* C29: process_all_sheets records a delivery group in the ledger if and only
\* if every message of that group was dispatched successfully in that run: a
\* group with a failed message is never marked, and a group whose messages
\* all succeeded is always marked before the next group is handled.
C29_MarkedIffAllSent ==
    (last_group.id # <<>> /\ ~last_group.skipped) =>
        (GroupRecorded(last_group.id) <=> last_group.sucesso)


(***************************************************************************)
(* send_to_slack (main.py): one requests.post to the webhook; the answer   *)
(* is an HTTP response or the post raises.                                 *)
(***************************************************************************)
Webhooks == {"hookA", "hookB"}

Messages == {"update", "summary"}

HttpAnswers ==
    {[kind |-> "response", status |-> st] : st \in {200, 429, 500}}
    \cup {[kind |-> "raises", status |-> 0]}

\* the value send_to_slack returns for the answer to its post
send_to_slack(answer) == answer.kind = "response" /\ answer.status = 200

NoSend == [op |-> "none"]

DispatchInit ==
    /\ outbox = <<>>
    /\ last_send = NoSend
    /\ LocIdle /\ NormIdle /\ LedgerIdle /\ SheetIdle /\ MainIdle /\ ReadIdle

\* send_to_slack(message, webhook_url)
Send ==
    /\ Len(outbox) < MaxSends
    /\ \E message \in Messages, webhook_url \in Webhooks, answer \in HttpAnswers :
          /\ outbox' = Append(outbox, [to |-> webhook_url, text |-> message,
                                       answer |-> answer])
          /\ last_send' = [op |-> "send_to_slack", message |-> message,
                           to |-> webhook_url, answer |-> answer,
                           before |-> Len(outbox),
                           returned |-> send_to_slack(answer)]
    /\ UNCHANGED <<locVars, normVars, ledgerVars, sheetVars, mainVars, readVars>>

DispatchNext == Send

SpecDispatch == DispatchInit /\ [][DispatchNext]_vars

\* the number of posts the last send_to_slack call made
PostsOfLastSend == Len(outbox) - last_send.before

\* C8: send_to_slack retries the delivery when the answer indicates a rate
\* limit (status 429), and abandons every other failed delivery after one
\* attempt, returning failure without raising.
C8_RetryOnRateLimit ==
    last_send.op = "send_to_slack" =>
        /\ (last_send.answer.kind = "response" /\ last_send.answer.status = 429)
              => PostsOfLastSend > 1
        /\ (~last_send.returned /\ ~(last_send.answer.kind = "response"
                                     /\ last_send.answer.status = 429))
              => PostsOfLastSend = 1


(***************************************************************************)
(* The all-sites run of main (main.py).  A site is [name, has_url,         *)
(* sheets]; a worksheet is [name, records]; a record carries the date cell *)
(* and the margin cell of a row, the margin cell showing `cents` in the    *)
(* sheet's currency format.                                                *)
(***************************************************************************)
max_retries == 5

Months ==
    << <<"J", "a", "n", "e", "i", "r", "o">>,
       <<"F", "e", "v", "e", "r", "e", "i", "r", "o">>,
       <<"M", "a", "r", "ç", "o">>,
       <<"A", "b", "r", "i", "l">>,
       <<"M", "a", "i", "o">>,
       <<"J", "u", "n", "h", "o">>,
       <<"J", "u", "l", "h", "o">>,
       <<"A", "g", "o", "s", "t", "o">>,
       <<"S", "e", "t", "e", "m", "b", "r", "o">>,
       <<"O", "u", "t", "u", "b", "r", "o">>,
       <<"N", "o", "v", "e", "m", "b", "r", "o">>,
       <<"D", "e", "z", "e", "m", "b", "r", "o">> >>

RECURSIVE FirstMonthIn(_, _)
\* the position of the first month name, in calendar order, that the title
\* contains (0 when it contains none): where `for mes in [...]` breaks
FirstMonthIn(sheet_name, k) ==
    IF k > Len(Months) THEN 0
    ELSE IF Contains(sheet_name, Months[k]) THEN k
    ELSE FirstMonthIn(sheet_name, k + 1)

\* the test that appends a worksheet to mes_vigente_sheets
IsMesVigente(sheet_name, current_month, current_year) ==
    LET mes_num == FirstMonthIn(sheet_name, 1)
    IN  /\ mes_num # 0
        /\ mes_num = current_month
        /\ Contains(sheet_name, NatText(current_year))

RECURSIVE SelectFrom(_, _, _, _)
SelectFrom(sheets, current_month, current_year, k) ==
    IF k > Len(sheets) THEN <<>>
    ELSE (IF IsMesVigente(sheets[k].name, current_month, current_year)
          THEN <<k>> ELSE <<>>)
         \o SelectFrom(sheets, current_month, current_year, k + 1)

\* the positions of the worksheets main reads, with the fallback to the
\* first worksheet
mes_vigente_sheets(sheets, current_month, current_year) ==
    LET picked == SelectFrom(sheets, current_month, current_year, 1)
    IN  IF picked = <<>> /\ sheets # <<>> THEN <<1>> ELSE picked

M_INVALID == <<"U", "R", "L", " ", "d", "a", " ", "p", "l", "a", "n", "i", "l", "h", "a", " ", "i", "n", "v", "á", "l", "i", "d", "a", " ", "o", "u", " ", "m", "a", "l", "f", "o", "r", "m", "a", "d", "a">>

M_PERMISSION == <<"S", "e", "m", " ", "p", "e", "r", "m", "i", "s", "s", "ã", "o", " ", "p", "a", "r", "a", " ", "a", "c", "e", "s", "s", "a", "r", " ", "a", " ", "p", "l", "a", "n", "i", "l", "h", "a", ".", " ", "V", "e", "r", "i", "f", "i", "q", "u", "e", " ", "s", "e", " ", "a", " ", "c", "o", "n", "t", "a", " ", "d", "e", " ", "s", "e", "r", "v", "i", "ç", "o", " ", "t", "e", "m", " ", "a", "c", "e", "s", "s", "o", ".">>

M_API == <<"E", "r", "r", "o", " ", "d", "a", " ", "A", "P", "I", " ", "d", "o", " ", "G", "o", "o", "g", "l", "e", " ", "S", "h", "e", "e", "t", "s", ".", " ", "V", "e", "r", "i", "f", "i", "q", "u", "e", " ", "p", "e", "r", "m", "i", "s", "s", "õ", "e", "s", " ", "e", " ", "q", "u", "o", "t", "a", ".">>

M_UNKNOWN == <<"E", "r", "r", "o", " ", "d", "e", "s", "c", "o", "n", "h", "e", "c", "i", "d", "o", " ", "d", "o", " ", "t", "i", "p", "o", " ">>

\* GoogleSheetsProcessor.__init__, the except branch: the message of the
\* Exception raised in place of the failure e = [etype, msg]; the traceback
\* text is reduced to its last line, "<etype>: <msg>"
gsp_init_error(e) ==
    LET error_msg == e.msg
        error_type == e.etype
        traceback_str == error_type \o <<":", " ">> \o error_msg
    IN  IF Contains(error_msg, <<"N", "o", "V", "a", "l", "i", "d", "U", "r", "l", "K", "e", "y", "F", "o", "u", "n", "d">>) THEN M_INVALID
        ELSE IF \/ Contains(error_type, <<"P", "e", "r", "m", "i", "s", "s", "i", "o", "n", "E", "r", "r", "o", "r">>)
                \/ Contains(traceback_str, <<"4", "0", "3">>)
                \/ Contains(traceback_str, <<"d", "o", "e", "s", " ", "n", "o", "t", " ", "h", "a", "v", "e", " ", "p", "e", "r", "m", "i", "s", "s", "i", "o", "n">>)
        THEN M_PERMISSION
        ELSE IF \/ Contains(error_type, <<"A", "P", "I", "E", "r", "r", "o", "r">>)
                \/ Contains(traceback_str, <<"A", "P", "I", "E", "r", "r", "o", "r">>)
        THEN M_API
        ELSE IF Strip(error_msg) = <<>> THEN M_UNKNOWN \o error_type
        ELSE error_msg

\* 'RATE_LIMIT_EXCEEDED' in str(e) or '429' in str(e)
is_rate_limit(message) ==
    \/ Contains(message, <<"R", "A", "T", "E", "_", "L", "I", "M", "I", "T", "_", "E", "X", "C", "E", "E", "D", "E", "D">>)
    \/ Contains(message, <<"4", "2", "9">>)

\* failures of the connection to the spreadsheet, as gspread and the
\* transport raise them
OpenFailures ==
    { [cause |-> "rate_limit", etype |-> <<"A", "P", "I", "E", "r", "r", "o", "r">>,
       msg |-> <<"{", "'", "c", "o", "d", "e", "'", ":", " ", "4", "2", "9", ",", " ", "'", "s", "t", "a", "t", "u", "s", "'", ":", " ", "'", "R", "E", "S", "O", "U", "R", "C", "E", "_", "E", "X", "H", "A", "U", "S", "T", "E", "D", "'", "}">>],
      [cause |-> "permission", etype |-> <<"P", "e", "r", "m", "i", "s", "s", "i", "o", "n", "E", "r", "r", "o", "r">>, msg |-> <<>>],
      [cause |-> "invalid_source", etype |-> <<"N", "o", "V", "a", "l", "i", "d", "U", "r", "l", "K", "e", "y", "F", "o", "u", "n", "d">>, msg |-> <<>>],
      [cause |-> "transport", etype |-> <<"T", "r", "a", "n", "s", "p", "o", "r", "t", "E", "r", "r", "o", "r">>,
       msg |-> <<"4", "2", "9", " ", "T", "o", "o", " ", "M", "a", "n", "y", " ", "R", "e", "q", "u", "e", "s", "t", "s">>] }

Min2(a, b) == IF a <= b THEN a ELSE b

backoffNoCapMut(attempt, max_backoff, u) ==
    LET base_delay == 2 ^ (attempt - 1)
    IN  base_delay * 100 + u * base_delay

\* exponential_backoff, in hundredths of a second; u is the draw of the
\* jitter in hundredths of base_delay (random.uniform(0, 0.1 * base_delay))
exponential_backoff(attempt, max_backoff, u) ==
    LET base_delay == Min2(2 ^ (attempt - 1), max_backoff)
    IN  base_delay * 100 + u * base_delay

Uniforms == {0, 10}

\* the max_backoff of the call sites (60 by default, 30 for read_data) and
\* a cap that the first attempt already meets
MaxBackoffs == {1, 30, 60}

\* the draws of the jitter, in hundredths of base_delay
JitterDraws == 0..10

BackoffInit ==
    /\ nin \in [kind : {"backoff"}, attempt : 1..MaxAttempt,
                max_backoff : MaxBackoffs, u : JitterDraws]
    /\ nout = [op |-> "none"]
    /\ LocIdle /\ LedgerIdle /\ SheetIdle /\ SendIdle /\ MainIdle /\ ReadIdle

\* wait_time = exponential_backoff(attempt, max_backoff), and the wait of
\* the attempt after it under the same draw
EvalBackoff ==
    /\ nout.op = "none"
    /\ nin.kind = "backoff"
    /\ nout' = [op |-> "exponential_backoff",
                d |-> exponential_backoff(nin.attempt, nin.max_backoff, nin.u),
                d_next |-> exponential_backoff(nin.attempt + 1,
                                               nin.max_backoff, nin.u)]
    /\ UNCHANGED <<nin, locVars, ledgerVars, sheetVars, sendVars, mainVars, readVars>>

BackoffNext == EvalBackoff

SpecBackoff == BackoffInit /\ [][BackoffNext]_vars

\* min(2^(attempt-1), max_backoff), in seconds
BaseOf(attempt, max_backoff) ==
    IF 2 ^ (attempt - 1) <= max_backoff THEN 2 ^ (attempt - 1) ELSE max_backoff

\* C22: exponential_backoff(attempt, max_backoff) returns a delay d with
\* base <= d <= 1.1 * base, where base = min(2^(attempt-1), max_backoff):
\* the base delay doubles with each attempt starting at 1, is non-decreasing
\* in attempt, and never exceeds max_backoff.
C22_BackoffBounds ==
    nout.op = "exponential_backoff" =>
        LET base == BaseOf(nin.attempt, nin.max_backoff)
            base_next == BaseOf(nin.attempt + 1, nin.max_backoff)
        IN  /\ 100 * base <= nout.d
            /\ nout.d <= 110 * base
            /\ nout.d <= 110 * nin.max_backoff
            /\ nin.attempt = 1 => nout.d <= 110
            /\ nout.d <= nout.d_next
            /\ 100 * base_next <= nout.d_next /\ nout.d_next <= 110 * base_next
            /\ 2 ^ nin.attempt <= nin.max_backoff => nout.d_next = 2 * nout.d

\* C22 witness: the seventh attempt under the default cap of 60 seconds with
\* the largest jitter: 2^6 = 64 is capped, the wait is 66 seconds
C22_Witness ==
    /\ nout.op = "exponential_backoff"
    /\ nin.attempt = 7 /\ nin.max_backoff = 60 /\ nin.u = 10
    /\ nout.d = 6600

\* C22 second witness: the third attempt, not capped, doubles into the fourth
C22_DoublingWitness ==
    /\ nout.op = "exponential_backoff"
    /\ nin.attempt = 3 /\ nin.max_backoff = 30 /\ nin.u = 5
    /\ nout.d = 420 /\ nout.d_next = 840

\* while retry and retry_count < max_retries
LoopContinuesMut(r, n) == r

LoopContinues(r, n) == r /\ n < max_retries

\* check_mc_alert: mc_value < -100
BelowAlertThresholdMut(mc_value) == DecLeq(mc_value, Dec(0 - 100, 0))

BelowAlertThreshold(mc_value) == DecLess(mc_value, Dec(0 - 100, 0))

\* check_mc_alert: TRUE when the alert is handed to send_to_slack
check_mc_alert(mc_value, row) == BelowAlertThreshold(mc_value) /\ row = "present"

\* to_float on a float: `if not val` answers for 0.0, the others go through
\* str(val)
to_float_of_number(x) == IF x.m = 0 THEN Zero ELSE to_float(PyStrFloat(x))

\* the accumulators a site can reach: the margins, and amounts with cents
AccumulatorValues ==
    NumericMargins \cup {Dec(123456, 2), Dec(5, 0), Dec(0 - 1505, 1), Dec(1, 1)}

\* margin cells written with a dot and no comma
DottedCells ==
    { <<"-", "1", ".", "5", "0", "0">>, <<"-", "1", "5", "0", ".", "5">>,
      <<"-", "1", ".", "5">>, <<"-", "1", "0", "0", ".", "5">>,
      <<"1", ".", "5", "0", "0">>, <<"-", "9", "9", ".", "9">>,
      <<"R", "$", " ", "-", "2", ".", "0", "0", "0">>, <<"-", "1", "5", "0">> }

\* the margin cells of a worksheet: amounts in the styles of a sheet, the
\* cells main cleans, and cells with a dot and no comma
MarginCells ==
    {Render(c, st) : c \in AmountCents, st \in RenderStyles}
    \cup RawCells \cup DottedCells

ParsersInit ==
    /\ nin \in {[kind |-> "accumulator", x |-> x] : x \in AccumulatorValues}
               \cup {[kind |-> "margin", text |-> t] : t \in MarginCells}
    /\ nout = [op |-> "none"]
    /\ LocIdle /\ LedgerIdle /\ SheetIdle /\ SendIdle /\ MainIdle /\ ReadIdle

\* process_all_sheets, lines 542-551: total_investimento =
\* to_float(site_investimento) and the text the summary shows for it
EvalSummaryTotal ==
    /\ nout.op = "none"
    /\ nin.kind = "accumulator"
    /\ \E f \in {to_float_of_number(nin.x)} :
          nout' = [op |-> "summary_total", f |-> f,
                   shown |-> FormatBRL(CentsOf(f))]
    /\ UNCHANGED <<nin, locVars, ledgerVars, sheetVars, sendVars, mainVars, readVars>>

\* process_current_date_only, lines 281-293: the margin cell goes to
\* check_mc_alert through to_float and to get_mc_emoji as it is
EvalMarginParsers ==
    /\ nout.op = "none"
    /\ nin.kind = "margin"
    /\ \E mc_geral \in {clean_value(nin.text)} :
          nout' = [op |-> "margin_parsers", mc_geral |-> mc_geral,
                   mc_float |-> to_float(mc_geral),
                   alert |-> BelowAlertThreshold(to_float(mc_geral)),
                   mc_emoji |-> get_mc_emoji(mc_geral)]
    /\ UNCHANGED <<nin, locVars, ledgerVars, sheetVars, sendVars, mainVars, readVars>>

ParsersNext == EvalSummaryTotal \/ EvalMarginParsers

SpecParsers == ParsersInit /\ [][ParsersNext]_vars

\* C26: in process_all_sheets the investment, revenue and margin shown in
\* the summary equal the sums accumulated from the located records: passing
\* an already numeric accumulator through to_float leaves its value
\* unchanged, i.e. to_float(x) = x for every number x (for example 1234.56,
\* 5.0 and -150.5).
C26_NumberUnchanged ==
    nout.op = "summary_total" =>
        /\ CentsOf(nout.f) = CentsOf(nin.x)
        /\ nout.shown = FormatBRL(CentsOf(nin.x))

\* C27: the two margin parsers agree: for every margin cell string, the
\* critical alert fires in check_mc_alert (to_float(value) < -100) exactly
\* when get_mc_emoji(value) yields the critical tier, including strings with
\* a dot and no comma such as '-1.500' or '-150.5'.
C27_ParsersAgree ==
    nout.op = "margin_parsers" => (nout.alert <=> nout.mc_emoji = E_CRITICAL)

AlertHook == "hookAlert"

NoticeHook == "hook5"

\* a row as read_data returns it: the date cell and the four value cells
FullRecord(data, cents, investimento, receita, roas) ==
    [Data |-> data, cents |-> cents, mc |-> FormatBRL(cents),
     Investimento |-> investimento, Receita |-> receita, ROAS |-> roas]

R_100 == <<"R", "$", " ", "1", "0", "0", ",", "0", "0">>

R_200 == <<"R", "$", " ", "2", "0", "0", ",", "0", "0">>

R_1000 == <<"R", "$", " ", "1", ".", "0", "0", "0", ",", "0", "0">>

USD_300 == <<"$", " ", "3", "0", "0", ",", "0", "0">>

MainRecord(data, cents) ==
    FullRecord(data, cents, R_100, R_200, <<"2", ",", "0", "0">>)

Resumo == <<"R", "e", "s", "u", "m", "o">>

SetembroOutubro2025 ==
    <<"S", "e", "t", "e", "m", "b", "r", "o", "/", "O", "u", "t", "u", "b", "r", "o", " ", "2", "0", "2", "5">>

Outubro2025B == Outubro2025 \o <<" ", "B">>

SiteKinds ==
    { [name |-> "beta", has_url |-> TRUE,
       sheets |-> << Worksheet(Setembro2025, <<MainRecord(D0110, 0 - 50000)>>),
                     Worksheet(Outubro2025,
                               <<FullRecord(D0110, 0 - 15000, R_1000, USD_300,
                                            <<"0", ",", "5", "0">>)>>),
                     Worksheet(Outubro2025B,
                               <<MainRecord(<<>>, 7000),
                                 MainRecord(D0210, 9000)>>) >>],
      [name |-> "gama", has_url |-> TRUE,
       sheets |-> << Worksheet(Resumo,
                               <<FullRecord(D0110, 0 - 10000, R_100, R_200,
                                            <<"2", ",", "0", "0">>)>>),
                     Worksheet(SetembroOutubro2025,
                               <<MainRecord(D0110, 5000)>>) >>],
      [name |-> "delta", has_url |-> FALSE, sheets |-> <<>>] }

NoWebhook == "<no webhook>"

\* a row of the sites table joined with its channel; known = FALSE is a site
\* for which the query of get_site_config finds nothing (no column_indices)
SiteRow(site, webhook, known) ==
    [name |-> site.name, has_url |-> site.has_url, sheets |-> site.sheets,
     webhook |-> webhook, known |-> known]

\* the spreadsheet named by get_default_config
DefaultSheets ==
    << Worksheet(Outubro2025, <<MainRecord(D0110, 5000)>>) >>

\* get_default_config: a sheet_url and the indices, no 'slack_webhook_url'
get_default_config ==
    [has_url |-> TRUE, sheets |-> DefaultSheets, webhook |-> NoWebhook]

\* get_site_config; answered = FALSE is a query that raised Error or found
\* no row
get_site_config(row, answered) ==
    IF row.known /\ answered
    THEN [has_url |-> row.has_url, sheets |-> row.sheets, webhook |-> row.webhook]
    ELSE get_default_config

Channel(webhook, sites) == [webhook |-> webhook, sites |-> sites]

RECURSIVE groupSitesNoMergeMut(_, _)
groupSitesNoMergeMut(sites, grouped) ==
    IF sites = <<>> THEN grouped
    ELSE LET row == Head(sites)
             webhook_url == get_site_config(row, TRUE).webhook
         IN  groupSitesNoMergeMut(Tail(sites),
                 IF webhook_url = NoWebhook THEN grouped
                 ELSE Append(grouped, Channel(webhook_url, <<row>>)))

RECURSIVE GroupSites(_, _)
\* the loop that fills webhook_to_sites: a site without webhook_url is left
\* out, the others are appended to the list of their webhook, the webhooks in
\* the order of their first site
GroupSites(sites, grouped) ==
    IF sites = <<>> THEN grouped
    ELSE LET row == Head(sites)
             webhook_url == get_site_config(row, TRUE).webhook
             at == {k \in DOMAIN grouped : grouped[k].webhook = webhook_url}
         IN  GroupSites(Tail(sites),
                 IF webhook_url = NoWebhook THEN grouped
                 ELSE IF at = {}
                 THEN Append(grouped, Channel(webhook_url, <<row>>))
                 ELSE [k \in DOMAIN grouped |->
                          IF k \in at
                          THEN Channel(webhook_url, Append(grouped[k].sites, row))
                          ELSE grouped[k]])

webhook_to_sites(sites) == GroupSites(sites, <<>>)

Omega == [name |-> "omega", has_url |-> TRUE,
          sheets |-> << Worksheet(Outubro2025, <<MainRecord(D0110, 0 - 20000)>>) >>]

Zeta == [name |-> "zeta", has_url |-> TRUE,
         sheets |-> << Worksheet(Outubro2025, <<MainRecord(D0110, 0 - 30000)>>) >>]

\* a site whose two worksheets of the month both hold the row of the date
Epsilon == [name |-> "epsilon", has_url |-> TRUE,
            sheets |-> << Worksheet(Outubro2025, <<MainRecord(D0110, 2500)>>),
                          Worksheet(Outubro2025B,
                                    <<FullRecord(D0110, 12500, R_200, R_1000,
                                                 <<"5", ",", "0", "0">>)>>) >>]

\* sites.name is UNIQUE
DistinctNames(sites) ==
    \A j, k \in DOMAIN sites : sites[j].name = sites[k].name => j = k

\* the sites table: up to MaxSites sites of one channel; two sites in two
\* channels; a site without channel or without column indices next to a
\* site of a channel
Registries ==
    {[k \in DOMAIN sites |-> SiteRow(sites[k], "hookA", TRUE)] :
        sites \in {q \in SeqsUpTo(SiteKinds, MaxSites) \ {<<>>} :
                      DistinctNames(q)}}
    \cup {<<SiteRow(q[1], "hookA", TRUE), SiteRow(q[2], "hookB", TRUE)>> :
            q \in {r \in [1..2 -> SiteKinds] :
                      <<r[1].name, r[2].name>> \in
                          {<<"beta", "gama">>, <<"gama", "delta">>,
                           <<"delta", "beta">>}}}
    \cup {<<SiteRow(Omega, NoWebhook, TRUE), SiteRow(a, "hookA", TRUE)>> :
            a \in SiteKinds}
    \cup {<<SiteRow(a, "hookA", TRUE), SiteRow(Zeta, "hookB", FALSE)>> :
            a \in SiteKinds}
    \cup {<<SiteRow(Epsilon, "hookA", TRUE)>>}

\* webhook_to_sites as the channels built from the registries
WebhookToSites == {webhook_to_sites(r) : r \in Registries}

NoError == [op |-> "none"]

NoChoice == [op |-> "none"]

\* the all-sites run when the loop over webhook_to_sites starts
Init ==
    /\ all_sites \in Registries
    /\ channels = webhook_to_sites(all_sites)
    /\ alert_row \in {"present", "absent"}
    /\ ch_i = 1
    /\ site_i = 1
    /\ main_pc = "site"
    /\ retry = TRUE
    /\ retry_count = 0
    /\ attempts = 0
    /\ total_mc = Zero
    /\ total_investimento = Zero
    /\ total_receita_real = Zero
    /\ total_receita_dolar = Zero
    /\ roas_lidos = <<>>
    /\ sent = <<>>
    /\ last_error = NoError
    /\ chosen = NoChoice
    /\ last_site = [result |-> "none"]
    /\ LocIdle /\ NormIdle /\ LedgerIdle /\ SheetIdle /\ SendIdle /\ ReadIdle

\* the values main takes from the located record
EvalRecord(sheet, current_record, mc_float, receita, row) ==
    [sheet |-> sheet, cents |-> current_record.cents,
     mc_float |-> mc_float,
     alerted |-> check_mc_alert(mc_float, row),
     investimento |-> to_float(clean_value(current_record.Investimento)),
     receita |-> receita,
     is_dolar |-> is_dollar_value(receita),
     receita_float |-> to_float(receita),
     roas |-> to_float(clean_value(current_record.ROAS))]

evalRowLastMut(sheet, records, idx, row) ==
    IF records = <<>> THEN <<>>
    ELSE LET at == IF idx = 0 THEN Len(records) ELSE idx
         IN  << EvalRecord(sheet, records[at],
                           to_float(clean_value(records[at].mc)),
                           clean_value(records[at].Receita), row) >>

\* the body of the loop once the row of the date is located (idx = 0: no row)
EvalRow(sheet, records, idx, row) ==
    IF idx = 0 THEN <<>>
    ELSE LET mc_geral == clean_value(records[idx].mc)
         IN  << EvalRecord(sheet, records[idx], to_float(mc_geral),
                           clean_value(records[idx].Receita), row) >>

RECURSIVE EvalSheets(_, _, _, _, _, _)
\* the loop over mes_vigente_sheets: for each worksheet that is read and
\* holds a row for the date, the values main works with
EvalSheets(sheets, picked, reads, current_date, row, k) ==
    IF k > Len(picked) THEN <<>>
    ELSE LET records == IF reads[k] THEN sheets[picked[k]].records ELSE <<>>
         IN  EvalRow(picked[k], records,
                     LocateMain(DataCells(records), current_date), row)
             \o EvalSheets(sheets, picked, reads, current_date, row, k + 1)

RECURSIVE SumMc(_)
SumMc(evals) ==
    IF evals = <<>> THEN Zero
    ELSE DecAdd(Head(evals).mc_float, SumMc(Tail(evals)))

RECURSIVE SumInvestimento(_)
\* site_investimento
SumInvestimento(evals) ==
    IF evals = <<>> THEN Zero
    ELSE DecAdd(Head(evals).investimento, SumInvestimento(Tail(evals)))

RECURSIVE swappedRoutingMut(_, _)
swappedRoutingMut(evals, dolar) ==
    IF evals = <<>> THEN Zero
    ELSE DecAdd(IF Head(evals).is_dolar # dolar
                THEN Head(evals).receita_float ELSE Zero,
                swappedRoutingMut(Tail(evals), dolar))

RECURSIVE SumReceita(_, _)
\* site_receita_dolar (dolar = TRUE) and site_receita_real (dolar = FALSE)
SumReceita(evals, dolar) ==
    IF evals = <<>> THEN Zero
    ELSE DecAdd(IF Head(evals).is_dolar = dolar
                THEN Head(evals).receita_float ELSE Zero,
                SumReceita(Tail(evals), dolar))

roasOfLastMut(evals) ==
    IF evals = <<>> THEN <<>> ELSE <<evals[Len(evals)].roas>>

\* the values appended to roas_lidos
RoasOf(evals) == [k \in DOMAIN evals |-> evals[k].roas]

RECURSIVE SumDec(_)
\* sum(roas_lidos)
SumDec(xs) == IF xs = <<>> THEN Zero ELSE DecAdd(Head(xs), SumDec(Tail(xs)))

roasSumMut(samples) ==
    IF samples = <<>> THEN [num |-> 0, den |-> 1]
    ELSE [num |-> SumDec(samples).m, den |-> Pow10(SumDec(samples).e)]

\* roas_medio = sum(roas_lidos) / len(roas_lidos) if roas_lidos else 0.0, as
\* the fraction num / den
roas_medio_of(samples) ==
    IF samples = <<>> THEN [num |-> 0, den |-> 1]
    ELSE [num |-> SumDec(samples).m,
          den |-> Len(samples) * Pow10(SumDec(samples).e)]

\* round(100 * num / den), ties to the even neighbour, as "{:,.2f}" rounds
RoundCents(q) ==
    LET n == 100 * q.num
        lo == n \div q.den
        r == n % q.den
    IN  IF 2 * r > q.den THEN lo + 1
        ELSE IF 2 * r = q.den THEN lo + (lo % 2)
        ELSE lo

RECURSIVE AlertsOf(_, _)
\* the alerts check_mc_alert hands to send_to_slack for the evaluated rows
AlertsOf(site_name, evals) ==
    IF evals = <<>> THEN <<>>
    ELSE (IF Head(evals).alerted
          THEN << [kind |-> "alert", to |-> AlertHook, site |-> site_name,
                   text |-> Format2f(CentsOf(Head(evals).mc_float))] >>
          ELSE <<>>)
         \o AlertsOf(site_name, Tail(evals))

CurrentSite == channels[ch_i].sites[site_i]

\* the except branch of the per-site loop for an exception with this message
Handle(cause, message, u) ==
    LET n == retry_count + 1
        limited == is_rate_limit(message)
    IN  /\ retry_count' = n
        /\ retry' = limited
        /\ last_error' = [op |-> "raised", cause |-> cause, message |-> message,
                          retryable |-> limited,
                          wait |-> IF limited
                                   THEN exponential_backoff(n, 60, u) ELSE 0]
        /\ main_pc' = IF LoopContinues(limited, n) THEN "site" ELSE "between"
        /\ last_site' = [result |-> IF ~limited THEN "error"
                                    ELSE IF n < max_retries THEN "retrying"
                                    ELSE "exhausted",
                         evals |-> <<>>]

\* the iteration leaves the totals and the samples as they are
NothingFolded ==
    UNCHANGED <<total_mc, total_investimento, total_receita_real,
                total_receita_dolar, roas_lidos>>

\* total_* += site_*, after roas_lidos took the samples of the located rows
Fold(evals) ==
    /\ total_investimento' = DecAdd(total_investimento, SumInvestimento(evals))
    /\ total_receita_real' = DecAdd(total_receita_real, SumReceita(evals, FALSE))
    /\ total_receita_dolar' = DecAdd(total_receita_dolar, SumReceita(evals, TRUE))
    /\ total_mc' = DecAdd(total_mc, SumMc(evals))
    /\ roas_lidos' = roas_lidos \o RoasOf(evals)

\* one iteration of `while retry and retry_count < max_retries`
AttemptSite ==
    /\ main_pc = "site"
    /\ LoopContinues(retry, retry_count)
    /\ attempts' = attempts + 1
    /\ \E answered \in BOOLEAN :
       LET site == CurrentSite
           config == get_site_config(site, answered)
           current_date == get_current_date_str(today)
       IN  \/ /\ ~config.has_url
              /\ main_pc' = "between"
              /\ last_site' = [result |-> "no_sheet_url", evals |-> <<>>,
                               answered |-> answered]
              /\ last_error' = NoError
              /\ chosen' = NoChoice
              /\ NothingFolded
              /\ UNCHANGED <<retry, retry_count, sent>>
           \/ /\ config.has_url
              /\ main_pc' = "between"
              /\ last_site' = [result |-> "no_sheets", evals |-> <<>>,
                               answered |-> answered]
              /\ last_error' = NoError
              /\ chosen' = NoChoice
              /\ NothingFolded
              /\ UNCHANGED <<retry, retry_count, sent>>
           \/ /\ config.has_url
              /\ \E e \in OpenFailures, u \in Uniforms :
                    Handle(e.cause, gsp_init_error(e), u)
              /\ chosen' = NoChoice
              /\ NothingFolded
              /\ UNCHANGED sent
           \/ /\ config.has_url
              /\ config.sheets # <<>>
              /\ LET picked == mes_vigente_sheets(config.sheets, today.month, today.year)
                 IN  /\ chosen' = [op |-> "select",
                                   titles |-> [k \in DOMAIN config.sheets |->
                                                  config.sheets[k].name],
                                   picked |-> picked]
                     /\ \E reads \in [DOMAIN picked -> BOOLEAN] :
                          \E evals \in {EvalSheets(config.sheets, picked, reads,
                                                   current_date, alert_row, 1)} :
                              IF evals # <<>>
                              THEN /\ Fold(evals)
                                   /\ sent' = sent \o AlertsOf(site.name, evals)
                                   /\ retry' = FALSE
                                   /\ main_pc' = "between"
                                   /\ last_site' = [result |-> "ok", evals |-> evals,
                                                    answered |-> answered,
                                                    reads |-> reads]
                                   /\ last_error' = NoError
                                   /\ UNCHANGED retry_count
                              ELSE /\ NothingFolded
                                   /\ \E notice \in {"sent", "raises"} :
                                        IF notice = "raises"
                                        THEN /\ Handle("database", <<"'", "N", "o", "n", "e", "T", "y", "p", "e", "'", " ", "o", "b", "j", "e", "c", "t", " ", "h", "a", "s", " ", "n", "o", " ", "a", "t", "t", "r", "i", "b", "u", "t", "e", " ", "'", "c", "u", "r", "s", "o", "r", "'">>, 0)
                                             /\ UNCHANGED sent
                                        ELSE /\ sent' = Append(sent,
                                                         [kind |-> "nodata", to |-> NoticeHook,
                                                          site |-> site.name, text |-> current_date])
                                             /\ retry' = FALSE
                                             /\ main_pc' = "between"
                                             /\ last_site' = [result |-> "no_data", evals |-> <<>>,
                                                              answered |-> answered,
                                                              reads |-> reads]
                                             /\ last_error' = NoError
                                             /\ UNCHANGED retry_count
    /\ UNCHANGED <<all_sites, channels, alert_row, ch_i, site_i>>
    /\ UNCHANGED <<locVars, normVars, ledgerVars, sheetVars, sendVars,
                   readVars>>

\* the per-site loop is over: the sleep between sites, then the next site of
\* the channel or the channel summary
NextSite ==
    /\ main_pc = "between"
    /\ IF site_i < Len(channels[ch_i].sites)
       THEN /\ site_i' = site_i + 1
            /\ retry' = TRUE
            /\ retry_count' = 0
            /\ attempts' = 0
            /\ main_pc' = "site"
       ELSE /\ main_pc' = "summary"
            /\ UNCHANGED <<site_i, retry, retry_count, attempts>>
    /\ NothingFolded
    /\ UNCHANGED <<all_sites, channels, alert_row, ch_i, sent, last_error,
                   chosen, last_site>>
    /\ UNCHANGED <<locVars, normVars, ledgerVars, sheetVars, sendVars,
                   readVars>>

\* resumo_final = "\n".join(resumo_msg)
resumo_final(investimento_str, receita_real_str, roas_str, mc_str) ==
    <<"I", "n", "v", "e", "s", "t", "i", "m", "e", "n", "t", "o", ":", " ">>
    \o investimento_str
    \o <<"\n", "R", "e", "c", "e", "i", "t", "a", ":", " ">> \o receita_real_str
    \o <<"\n", "R", "O", "A", "S", ":", " ">> \o roas_str
    \o <<"\n", "M", "C", ":", " ">> \o mc_str

\* receita_dolar_str
FormatUSD(cents) == SwapSeparators(<<"$", " ">> \o Format2f(cents))

\* the channel summary is formatted and handed to send_to_slack, then the
\* next channel starts
SendSummary ==
    /\ main_pc = "summary"
    /\ \E roas_medio \in {roas_medio_of(roas_lidos)} :
         sent' = Append(sent,
                    [kind |-> "summary", to |-> channels[ch_i].webhook,
                     site |-> "", text |-> FormatBRL(CentsOf(total_mc)),
                     investimento |-> FormatBRL(CentsOf(total_investimento)),
                     receita |-> FormatBRL(CentsOf(total_receita_real)),
                     roas_medio |-> roas_medio,
                     roas |-> SwapSeparators(Format2f(RoundCents(roas_medio))),
                     resumo |-> resumo_final(
                                   FormatBRL(CentsOf(total_investimento)),
                                   FormatBRL(CentsOf(total_receita_real)),
                                   SwapSeparators(Format2f(RoundCents(roas_medio))),
                                   FormatBRL(CentsOf(total_mc))),
                     samples |-> Len(roas_lidos)])
    /\ IF ch_i < Len(channels)
       THEN /\ ch_i' = ch_i + 1
            /\ site_i' = 1
            /\ retry' = TRUE
            /\ retry_count' = 0
            /\ attempts' = 0
            /\ total_mc' = Zero
            /\ total_investimento' = Zero
            /\ total_receita_real' = Zero
            /\ total_receita_dolar' = Zero
            /\ roas_lidos' = <<>>
            /\ main_pc' = "site"
       ELSE /\ main_pc' = "done"
            /\ NothingFolded
            /\ UNCHANGED <<ch_i, site_i, retry, retry_count, attempts>>
    /\ UNCHANGED <<all_sites, channels, alert_row, last_error, chosen, last_site>>
    /\ UNCHANGED <<locVars, normVars, ledgerVars, sheetVars, sendVars,
                   readVars>>

Next == AttemptSite \/ NextSite \/ SendSummary

Spec == Init /\ [][Next]_vars

\* the titles of the last selection that contain the current month's name
\* and the current year
Qualifying ==
    {k \in DOMAIN chosen.titles :
        /\ Contains(chosen.titles[k], Months[today.month])
        /\ Contains(chosen.titles[k], NatText(today.year))}

\* C5: worksheet selection picks exactly the worksheets whose title contains
\* both the current month's Portuguese name and the current four-digit year;
\* when no title qualifies, exactly the first worksheet is used.
C5_SelectsMonthAndYear ==
    chosen.op = "select" =>
        LET picked == {chosen.picked[k] : k \in DOMAIN chosen.picked}
        IN  IF Qualifying # {} THEN picked = Qualifying ELSE picked = {1}

\* every channel's summary was handed to the notifier
SummariesSent ==
    \A c \in DOMAIN channels :
        \E k \in DOMAIN sent :
            sent[k].kind = "summary" /\ sent[k].to = channels[c].webhook

RECURSIVE SitesFrom(_)
\* the number of sites of the channels from position c on
SitesFrom(c) ==
    IF c > Len(channels) THEN 0 ELSE Len(channels[c].sites) + SitesFrom(c + 1)

\* the sites the run has not reached yet
SitesAhead == (Len(channels[ch_i].sites) - site_i) + SitesFrom(ch_i + 1)

\* a measure of the work left: the sites and channel summaries ahead, then
\* what is left of the site in hand
Rank ==
    (max_retries + 4) * (SitesAhead + (Len(channels) - ch_i))
    + CASE main_pc = "site" -> 3 + (max_retries - retry_count)
        [] main_pc = "between" -> 2
        [] main_pc = "summary" -> 1
        [] OTHER -> 0

\* C6: the per-site loop always terminates: a site is attempted at most
\* max_retries (5) times; every step of the run uses up some of the finite
\* work left (so the run cannot go on for ever); and the run can only stop
\* at its end, after the last site of the last channel, with every channel's
\* summary dispatched, whatever ended each site's loop.
C6_SiteLoopTerminates ==
    /\ [](attempts <= max_retries /\ Rank >= 0)
    /\ [][Rank' < Rank]_vars
    /\ []((~ENABLED Next) =>
            /\ main_pc = "done"
            /\ ch_i = Len(channels)
            /\ site_i = Len(channels[ch_i].sites)
            /\ SummariesSent)

\* C6 witness: the run ended with its summaries sent after the last site
\* used up its 5 attempts on rate-limit failures
C6_Witness ==
    /\ main_pc = "done"
    /\ last_site.result = "exhausted"
    /\ attempts = max_retries
    /\ Len(channels[ch_i].sites) = 2
    /\ SummariesSent

\* C7: a rate-limit failure that reaches the per-site handler is classified
\* retryable and retried after a backoff, whereas invalid-source and
\* permission failures are never retried.
C7_RateLimitRetried ==
    last_error.op = "raised" =>
        /\ last_error.cause = "rate_limit" =>
              (last_error.retryable /\ last_error.wait > 0)
        /\ last_error.cause \in {"invalid_source", "permission"} =>
              ~last_error.retryable

\* every alert went to the Alert destination and to no channel's webhook
AlertsOnlyToAlertHook ==
    \A k \in DOMAIN sent :
        sent[k].kind = "alert" =>
            /\ sent[k].to = AlertHook
            /\ \A c \in DOMAIN channels : sent[k].to # channels[c].webhook

ReceitaCents(evals, dolar) ==
    LET Foreign(k) == /\ Contains(evals[k].receita, <<"$">>)
                      /\ ~Contains(evals[k].receita, <<"R", "$">>)
        S[k \in 0..Len(evals)] ==
            IF k = 0 THEN 0
            ELSE S[k - 1] + (IF Foreign(k) = dolar
                             THEN CentsOf(evals[k].receita_float) ELSE 0)
    IN  S[Len(evals)]

\* a step that folds the located records of a site routes each revenue
RoutedStep ==
    (main_pc = "site" /\ last_site'.result = "ok") =>
        /\ CentsOf(total_receita_dolar') =
              CentsOf(total_receita_dolar) + ReceitaCents(last_site'.evals, TRUE)
        /\ CentsOf(total_receita_real') =
              CentsOf(total_receita_real) + ReceitaCents(last_site'.evals, FALSE)

\* C13: when a located record is folded into the totals, its revenue is added
\* to exactly one revenue accumulator: the foreign one if and only if the
\* revenue string contains '$' and does not contain 'R$', the local one
\* otherwise; the other accumulator is left unchanged.
C13_RevenueRouted == [][RoutedStep]_vars

\* C13 witness: a channel with a site reporting '$ 300,00' and a site
\* reporting 'R$ 200,00' ended with both accumulators above zero
C13_Witness ==
    /\ main_pc = "done"
    /\ Len(channels[ch_i].sites) = 2
    /\ total_receita_dolar = Dec(300, 0)
    /\ total_receita_real = Dec(200, 0)

\* the ROAS samples of the evaluated rows, in cents
RoasCents(evals) ==
    LET S[k \in 0..Len(evals)] ==
            IF k = 0 THEN 0 ELSE S[k - 1] + CentsOf(evals[k].roas)
    IN  S[Len(evals)]

\* the cents of the samples held in roas_lidos
SampleCents(xs) ==
    LET S[k \in 0..Len(xs)] ==
            IF k = 0 THEN 0 ELSE S[k - 1] + CentsOf(xs[k])
    IN  S[Len(xs)]

\* a fraction num / den equals cents / (100 * n)
IsMeanOf(q, cents, n) == q.num * 100 * n = cents * q.den

\* a step of the run takes one ROAS sample per folded record and no other,
\* and the summary step reports the mean of the channel's samples
MeanStep ==
    /\ (main_pc = "site") =>
          IF last_site'.result = "ok"
          THEN /\ Len(roas_lidos') = Len(roas_lidos) + Len(last_site'.evals)
               /\ SampleCents(roas_lidos') =
                     SampleCents(roas_lidos) + RoasCents(last_site'.evals)
          ELSE roas_lidos' = roas_lidos
    /\ (main_pc = "between") => (roas_lidos' = roas_lidos)
    /\ (main_pc = "summary") =>
          LET summary == sent'[Len(sent')]
          IN  /\ summary.kind = "summary"
              /\ summary.samples = Len(roas_lidos)
              /\ IF roas_lidos = <<>>
                 THEN /\ summary.roas_medio.num = 0
                      /\ summary.roas = <<"0", ",", "0", "0">>
                 ELSE IsMeanOf(summary.roas_medio, SampleCents(roas_lidos),
                               Len(roas_lidos))

\* C14: the ROAS of a channel summary is the unweighted arithmetic mean of
\* the ROAS values of the records folded for that channel (one sample per
\* folded record, none for anything else), not total revenue divided by
\* total investment, and it is the zero value when no record was folded.
C14_RoasIsMeanOfSamples == [][MeanStep]_vars

\* C14 witness: a summary over the samples 0,50 and 2,00 reports 1,25 while
\* revenue over investment (200 / 1100) would give 0,18
C14_Witness ==
    /\ main_pc = "done"
    /\ roas_lidos = <<Dec(5, 1), Dec(2, 0)>>
    /\ total_receita_real = Dec(200, 0)
    /\ total_investimento = Dec(1100, 0)
    /\ sent[Len(sent)].kind = "summary"
    /\ sent[Len(sent)].roas = <<"1", ",", "2", "5">>

\* C14 second witness: a channel without any folded record reports 0,00
C14_ZeroWitness ==
    /\ main_pc = "done"
    /\ roas_lidos = <<>>
    /\ sent[Len(sent)].kind = "summary"
    /\ sent[Len(sent)].roas = <<"0", ",", "0", "0">>

\* the rows of the registry that have a destination webhook and column
\* indices
Configured == {k \in DOMAIN all_sites :
                  all_sites[k].known /\ all_sites[k].webhook # NoWebhook}

\* C17: in the all-sites run, a site with no destination webhook, with no
\* source location, or unknown to the site registry is skipped: nothing is
\* dispatched on its behalf, it adds nothing to any channel total, and every
\* other configured site is still processed in the same run.
C17_MisconfiguredSkipped ==
    /\ \A k \in DOMAIN all_sites :
          (k \notin Configured) =>
              /\ \A c \in DOMAIN channels :
                    \A j \in DOMAIN channels[c].sites :
                        channels[c].sites[j].name # all_sites[k].name
              /\ \A m \in DOMAIN sent : sent[m].site # all_sites[k].name
    /\ (/\ last_site.result \in {"ok", "no_data", "no_sheets", "no_sheet_url"}
        /\ (~last_site.answered \/ ~CurrentSite.has_url))
       => last_site.evals = <<>>
    /\ main_pc = "done" =>
          /\ ch_i = Len(channels) /\ site_i = Len(channels[ch_i].sites)
          /\ \A k \in Configured :
                \E c \in DOMAIN channels :
                    \E j \in DOMAIN channels[c].sites :
                        channels[c].sites[j].name = all_sites[k].name

\* the worksheets of the last iteration that were read and hold no row for
\* the target date
SheetsWithoutMatch ==
    {k \in DOMAIN chosen.picked :
        /\ last_site.reads[k]
        /\ \A r \in DOMAIN CurrentSite.sheets[chosen.picked[k]].records :
              LET data_val == CurrentSite.sheets[chosen.picked[k]].records[r].Data
              IN  data_val = <<>> \/ Strip(data_val) # get_current_date_str(today)}

DestinationWebhooks ==
    {all_sites[k].webhook : k \in {j \in DOMAIN all_sites : all_sites[j].known}}
    \ {NoWebhook}

\* the positions in sent of the channel summaries handed to the webhook
SummariesTo(w) ==
    {k \in DOMAIN sent : sent[k].kind = "summary" /\ sent[k].to = w}

\* the sites of the registry that report to the webhook
SitesOf(w) ==
    {all_sites[k].name :
        k \in {j \in DOMAIN all_sites :
                  all_sites[j].known /\ all_sites[j].webhook = w}}

\* at every moment of the run
SummaryInvariant ==
    /\ \A w \in DestinationWebhooks :
          /\ Cardinality(SummariesTo(w)) <= 1
          /\ main_pc = "done" => Cardinality(SummariesTo(w)) = 1
    /\ \A k \in DOMAIN sent :
          sent[k].kind = "summary" => sent[k].to \in DestinationWebhooks
    /\ (main_pc = "site" /\ site_i = 1 /\ attempts = 0) =>
          /\ total_mc = Zero /\ total_investimento = Zero
          /\ total_receita_real = Zero /\ total_receita_dolar = Zero
          /\ roas_lidos = <<>>

\* a step that hands over a summary does so for the channel in hand, after
\* its last site left the per-site loop; a step that starts another channel
\* starts it with empty accumulators
SummaryStep ==
    /\ (Len(sent') > Len(sent) /\ sent'[Len(sent')].kind = "summary") =>
          /\ main_pc = "summary"
          /\ sent'[Len(sent')].to = channels[ch_i].webhook
          /\ site_i = Len(channels[ch_i].sites)
          /\ {channels[ch_i].sites[j].name : j \in DOMAIN channels[ch_i].sites}
                = SitesOf(channels[ch_i].webhook)
          /\ sent'[Len(sent')].text = FormatBRL(CentsOf(total_mc))
          /\ sent'[Len(sent')].samples = Len(roas_lidos)
    /\ (ch_i' # ch_i) =>
          /\ total_mc' = Zero /\ total_investimento' = Zero
          /\ total_receita_real' = Zero /\ total_receita_dolar' = Zero
          /\ roas_lidos' = <<>>

\* C24: in one all-sites run, for every distinct destination webhook exactly
\* one channel summary is dispatched to it, only after every site mapped to
\* that webhook has finished (succeeded, been skipped or exhausted its
\* retries), and it is computed only from accumulators that were zero/empty
\* when that channel started, so no value of another channel's sites enters
\* it.
C24_OneSummaryPerWebhook == []SummaryInvariant /\ [][SummaryStep]_vars

\* C24 witness: a run over two channels ended; the first channel folded a
\* margin, and the summary of the second carries only its own site's margin
C24_Witness ==
    /\ main_pc = "done"
    /\ Len(channels) = 2
    /\ Cardinality(SummariesTo("hookA")) = 1
    /\ Cardinality(SummariesTo("hookB")) = 1
    /\ \E a \in SummariesTo("hookA"), b \in SummariesTo("hookB") :
          /\ a < b
          /\ sent[a].samples >= 1 /\ sent[b].samples >= 1
          /\ sent[a].text # FormatBRL(0)
          /\ sent[b].text = FormatBRL(CentsOf(total_mc))
          /\ sent[b].samples = Len(last_site.evals)

\* the cents a field of the evaluated rows adds up to
FieldCents(evals, field) ==
    LET S[k \in 0..Len(evals)] ==
            IF k = 0 THEN 0 ELSE S[k - 1] + CentsOf(evals[k][field])
    IN  S[Len(evals)]

\* the worksheets an attempt for the site can read at most
SheetsAtMost(row) == Max2(Len(row.sheets), Len(DefaultSheets))

\* the worksheets of the sites of the channel up to the site in hand
SheetsSoFar ==
    LET S[j \in 0..site_i] ==
            IF j = 0 THEN 0
            ELSE S[j - 1] + SheetsAtMost(channels[ch_i].sites[j])
    IN  S[site_i]

\* an iteration of the per-site loop either folds the located records, each
\* into the totals and into the samples, and ends the loop, or leaves both
\* as they were
FoldStep ==
    (main_pc = "site") =>
        IF last_site'.result = "ok"
        THEN /\ main_pc' = "between" /\ retry' = FALSE
             /\ \A j, k \in DOMAIN last_site'.evals :
                   last_site'.evals[j].sheet = last_site'.evals[k].sheet => j = k
             /\ roas_lidos' =
                   roas_lidos \o [k \in DOMAIN last_site'.evals |->
                                     last_site'.evals[k].roas]
             /\ CentsOf(total_investimento') =
                   CentsOf(total_investimento)
                   + FieldCents(last_site'.evals, "investimento")
             /\ CentsOf(total_mc') =
                   CentsOf(total_mc) + FieldCents(last_site'.evals, "mc_float")
             /\ CentsOf(total_receita_real') + CentsOf(total_receita_dolar') =
                   CentsOf(total_receita_real) + CentsOf(total_receita_dolar)
                   + FieldCents(last_site'.evals, "receita_float")
        ELSE /\ last_site'.evals = <<>>
             /\ roas_lidos' = roas_lidos
             /\ total_investimento' = total_investimento
             /\ total_mc' = total_mc
             /\ total_receita_real' = total_receita_real
             /\ total_receita_dolar' = total_receita_dolar

\* C25: in the all-sites run, whenever a channel summary is computed, the
\* set of records whose ROAS is in the channel's sample list is exactly the
\* set of records whose investment, revenue and margin were added to the
\* channel totals: a site attempt that is abandoned or retried leaves
\* neither partial sums nor ROAS samples behind, and no record is counted
\* twice.
C25_SamplesAreFoldedRecords ==
    /\ [][FoldStep]_vars
    /\ [](main_pc \in {"site", "between", "summary"} =>
             Len(roas_lidos) <= SheetsSoFar)

\* C25 witness: the site was rate limited, tried again and folded on its
\* second attempt; the channel holds the samples of that one attempt only
C25_Witness ==
    /\ main_pc = "summary"
    /\ Len(channels[ch_i].sites) = 1
    /\ attempts = 2
    /\ last_site.result = "ok"
    /\ Len(last_site.evals) = 2
    /\ roas_lidos = [k \in DOMAIN last_site.evals |-> last_site.evals[k].roas]
    /\ CentsOf(total_mc) = FieldCents(last_site.evals, "mc_float")

\* C28: whenever a channel's foreign-currency revenue accumulator is
\* non-zero at the end of the all-sites run, the text of the dispatched
\* channel summary contains that foreign amount: revenue folded into the
\* totals is never silently missing from the summary.
C28_ForeignRevenueShown ==
    (main_pc = "done" /\ total_receita_dolar # Zero) =>
        /\ sent[Len(sent)].kind = "summary"
        /\ Contains(sent[Len(sent)].resumo,
                    FormatUSD(CentsOf(total_receita_dolar)))

====
